---- MODULE Spec2Model ----
(***************************************************************************)
(* State-machine model of the strategy orchestration core of AIChat-System *)
(* (src/backend): the tool registries, StrategyEngine.plan_strategy,       *)
(* MCPExecutor.execute_strategy, MCPClient.call_tool and                   *)
(* IntegrationEngine.generate_final_response.                              *)
(*                                                                         *)
(* Python values are tagged records: None, str, int, bool, list and dict   *)
(* (a dict is the sequence of its items in insertion order).  Exceptions   *)
(* are results [ok |-> FALSE, exc |-> type, msg |-> str(e)].               *)
(***************************************************************************)
EXTENDS Naturals, Sequences, FiniteSets, TLC

VARIABLES
    healthy,            \* environment: the MCP servers that answer HTTP
    available_tools,    \* MCPExecutor.available_tools: tool name -> mcp_server
    enabled_tools,      \* MCPExecutor.enabled_tools
    registered_tools,   \* MCPToolManager.registered_tools: tool_key -> MCPTool
    pc,                 \* position of the current turn
    user_message,       \* the turn's user message
    strategy,           \* the turn's DetailedStrategy object
    current_input,      \* execute_strategy: local current_input
    idx,                \* execute_strategy: position of the for loop
    raised,             \* the exception that escaped a call of the turn, or NoRaise
    calls,              \* history: execute_tool_directly invocations of the turn
    posts,              \* history: tools/call requests sent to a backend
    llm_response,       \* plan_strategy: local response / fixed_response
    llm_calls,          \* history: call_claude invocations of the turn
    tools_description,  \* plan_strategy: tool-description block built
    described,          \* history: the tools for which an entry was composed
    synth,              \* history: the last generate_final_response call
    chat_result,        \* AIAgent.process_message: the dict it returned
    plan_enabled_tools, \* history: MCPExecutor.enabled_tools when the turn's plan was made
    manager_enabled_tools, \* MCPToolManager.enabled_tools
    debug_collector,    \* ai_agent.py AIAgent.debug_collector: the current collector, 0 for None
    collector_traces,   \* ai_agent.py: DebugCollector.traces of each collector created
    agent_turns,        \* ai_agent.py: the frame of each process_message call
    conversations,      \* ConversationManager.conversations: session_id -> entries
    added               \* history: add_message calls per session since its creation

vars == << healthy, available_tools, enabled_tools, registered_tools, pc,
           user_message, strategy, current_input, idx, raised, calls, posts,
           llm_response, llm_calls, tools_description, described, synth,
           chat_result, plan_enabled_tools, manager_enabled_tools,
           debug_collector, collector_traces, agent_turns, conversations,
           added >>

\* the state of ai_agent.py's AIAgent and of the ConversationManager
AgentVars == << debug_collector, collector_traces, agent_turns >>
ConversationVars == << conversations, added >>

(***************************************************************************)
(* Bounds of the model                                                     *)
(***************************************************************************)
\* longest plan the planner LLM emits
MaxSteps == 2
\* generate_final_response calls on one Strategy
MaxAnswers == 2

(***************************************************************************)
(* Python values                                                           *)
(***************************************************************************)
PyNone == [t |-> "none"]
PyStr(s) == [t |-> "str", v |-> s]
PyInt(n) == [t |-> "int", v |-> n]
PyBool(b) == [t |-> "bool", v |-> b]
PySet(S) == [t |-> "set", v |-> S]
PyList(xs) == [t |-> "list", v |-> xs]
PyDict(items) == [t |-> "dict", v |-> items]
Item(key, val) == [k |-> key, v |-> val]

IsNone(x) == x.t = "none"
IsDict(x) == x.t = "dict"
IsStr(x) == x.t = "str"

\* bool(x)
Truthy(x) ==
    CASE x.t = "none" -> FALSE
      [] x.t = "str" -> x.v # ""
      [] x.t = "int" -> x.v # 0
      [] x.t = "bool" -> x.v
      [] OTHER -> Len(x.v) > 0

\* key in d, for a dict d
DictHas(d, key) == \E i \in 1..Len(d.v) : d.v[i].k = key

\* d.get(key, default), for a dict d
DictGet(d, key, default) ==
    IF DictHas(d, key)
    THEN d.v[CHOOSE i \in 1..Len(d.v) : d.v[i].k = key].v
    ELSE default

\* {k: v for k, v in d.items() if k != key}
DictWithout(d, key) ==
    PyDict(SelectSeq(d.v, LAMBDA it : it.k # key))

(***************************************************************************)
(* json.dumps(value, ensure_ascii=False), default separators               *)
(***************************************************************************)
\* position of the first character of text that is in chars, 0 when none
FirstOf(text, chars) ==
    LET at == { i \in 1..Len(text) : SubSeq(text, i, i) \in chars }
    IN  IF at = {} THEN 0 ELSE CHOOSE i \in at : \A j \in at : i <= j

RECURSIVE json_escape(_)
json_escape(s) ==
    LET at == FirstOf(s, {"\"", "\\", "\n"})
        c == SubSeq(s, at, at)
        e == IF c = "\"" THEN "\\\""
             ELSE IF c = "\\" THEN "\\\\"
             ELSE "\\n"
    IN  IF at = 0 THEN s
        ELSE SubSeq(s, 1, at - 1) \o e \o json_escape(SubSeq(s, at + 1, Len(s)))

RECURSIVE json_dumps(_)
RECURSIVE json_join(_, _)
json_join(xs, isDict) ==
    IF Len(xs) = 0 THEN ""
    ELSE LET one == IF isDict
                    THEN "\"" \o json_escape(xs[1].k) \o "\": " \o json_dumps(xs[1].v)
                    ELSE json_dumps(xs[1])
         IN IF Len(xs) = 1 THEN one
            ELSE one \o ", " \o json_join(Tail(xs), isDict)

json_dumps(x) ==
    CASE x.t = "none" -> "null"
      [] x.t = "str" -> "\"" \o json_escape(x.v) \o "\""
      [] x.t = "int" -> ToString(x.v)
      [] x.t = "bool" -> (IF x.v THEN "true" ELSE "false")
      [] x.t = "list" -> "[" \o json_join(x.v, FALSE) \o "]"
      [] OTHER -> "{" \o json_join(x.v, TRUE) \o "}"

\* sub in s, for two strings
Contains(s, sub) ==
    \E i \in 1..(Len(s) + 1) :
        /\ i + Len(sub) - 1 <= Len(s)
        /\ SubSeq(s, i, i + Len(sub) - 1) = sub

TurnVars == << pc, user_message, strategy, current_input, idx, raised, calls,
               posts, llm_response, llm_calls, tools_description, described,
               synth, chat_result, plan_enabled_tools >>
ExecutorRegistryVars == << available_tools, enabled_tools >>

(***************************************************************************)
(* Deployment: two MCP servers, each exposing one tool                     *)
(***************************************************************************)
Servers == {"productmaster", "crm"}
ToolNames == {"t1", "t2"}
Messages == {"Find details for product ABC123", "hello"}
Durations == {12}

\* the tools a server reports on /tools/descriptions
ServerTools(server) == IF server = "productmaster" THEN {"t1"} ELSE {"t2"}

\* MCPExecutor.mcp_clients: the MCPClient of a server, by its server_url
server_url(server) ==
    IF server = "productmaster" THEN "http://localhost:8003"
    ELSE "http://localhost:8004"

EmptyMap == [n \in {} |-> ""]

(***************************************************************************)
(* MCPClient                                                               *)
(***************************************************************************)
\* What _send_request returns for a tools/call request: the JSON body of a
\* 2xx answer, or {"error": str(e)} when the POST raised (connection
\* failure, timeout, non-2xx status).
ReplyWidget ==
    PyDict(<< Item("jsonrpc", PyStr("2.0")), Item("id", PyInt(1)),
              Item("result", PyDict(<< Item("name", PyStr("Widget")) >>)),
              Item("debug_response", PyStr("sql: SELECT 1")) >>)
ReplyText ==
    PyDict(<< Item("jsonrpc", PyStr("2.0")), Item("id", PyInt(1)),
              Item("result", PyStr("no \"match\"")) >>)
ReplyRpcError ==
    PyDict(<< Item("jsonrpc", PyStr("2.0")), Item("id", PyInt(1)),
              Item("error", PyDict(<< Item("message", PyStr("Unknown tool")) >>)) >>)
ReplyRefused == PyDict(<< Item("error", PyStr("All connection attempts failed")) >>)
ReplyStatus ==
    PyDict(<< Item("error", PyStr("Server error '500 Internal Server Error'")) >>)
ReplyNumber == PyInt(503)
\* the dict _send_request returns when the POST times out after 10 s: str(e)
\* of httpx.ReadTimeout
ReplyTimeout == PyDict(<< Item("error", PyStr("timed out")) >>)
\* the body of a 2xx answer of a tool that found nothing
ReplyEmpty ==
    PyDict(<< Item("jsonrpc", PyStr("2.0")), Item("id", PyInt(1)),
              Item("result", PyList(<<>>)) >>)

\* the outcomes of the POST: three bodies of a 2xx answer, a connection that
\* is refused, and a non-2xx status on which raise_for_status raises
Replies == {"widget", "text", "rpc_error", "number", "refused", "status"}
TransportFailures == {"refused", "status"}

send_request(kind) ==
    CASE kind = "widget" -> ReplyWidget
      [] kind = "text" -> ReplyText
      [] kind = "rpc_error" -> ReplyRpcError
      [] kind = "refused" -> ReplyRefused
      [] kind = "status" -> ReplyStatus
      [] kind = "timeout" -> ReplyTimeout
      [] kind = "empty" -> ReplyEmpty
      [] OTHER -> ReplyNumber

\* the "request" half of call_tool's debug_info
DebugRequest(tool_name, arguments, url) ==
    PyDict(<< Item("tool_name", PyStr(tool_name)), Item("arguments", arguments),
              Item("server_url", PyStr(url)),
              Item("timestamp", PyStr("<timestamp>")) >>)

\* MCPClient.call_tool(tool_name, arguments) on the client of `url`, when
\* _send_request answers `kind` after `ms` milliseconds
call_tool(tool_name, arguments, url, kind, ms) ==
    LET result == send_request(kind)
        request == DebugRequest(tool_name, arguments, url)
    IN  IF ~IsDict(result)
        THEN \* "result" in <int> raises TypeError, caught by call_tool
             PyDict(<< Item("error", PyStr("argument of type 'int' is not iterable")),
                       Item("debug_info", PyDict(<<
                           Item("request", request),
                           Item("response", PyDict(<<
                               Item("processing_time_ms", PyInt(ms)),
                               Item("status", PyStr("exception")),
                               Item("error_type", PyStr("TypeError")),
                               Item("error_message",
                                    PyStr("argument of type 'int' is not iterable")) >>)) >>)) >>)
        ELSE IF DictHas(result, "result")
        THEN PyDict(<< Item("result", DictGet(result, "result", PyNone)),
                       Item("debug_info", PyDict(<<
                           Item("request", request),
                           Item("response", PyDict(<<
                               Item("processing_time_ms", PyInt(ms)),
                               Item("request_id", DictGet(result, "id", PyNone)),
                               Item("status", PyStr("success")),
                               Item("tool_debug",
                                    DictGet(result, "debug_response", PyNone)) >>)) >>)) >>)
        ELSE PyDict(<< Item("error", PyStr("Tool execution failed")),
                       Item("debug_info", PyDict(<<
                           Item("request", request),
                           Item("response", PyDict(<<
                               Item("processing_time_ms", PyInt(ms)),
                               Item("status", PyStr("error")),
                               Item("error", PyStr("No result in response")) >>)) >>)) >>)

(***************************************************************************)
(* MCPExecutor: registry side                                              *)
(***************************************************************************)
\* variant of execute_tool_directly without the enabled_tools test
execute_tool_directly_unchecked(tool_name, tool_input, kind, ms) ==
    IF ~(IsStr(tool_name) /\ tool_name.v \in DOMAIN available_tools)
    THEN [result |-> PyDict(<< Item("error",
                         PyStr("Tool '" \o tool_name.v \o "' not available")) >>),
          posted |-> FALSE]
    ELSE IF available_tools[tool_name.v] \in healthy
    THEN [result |-> call_tool(tool_name.v,
                         PyDict(<< Item("text_input", PyStr(tool_input)) >>),
                         server_url(available_tools[tool_name.v]), kind, ms),
          posted |-> TRUE]
    ELSE [result |-> PyDict(<< Item("error", PyStr("MCP server unavailable")) >>),
          posted |-> FALSE]

\* MCPExecutor.execute_tool_directly(tool_name, tool_input): the dict it
\* returns and whether client.call_tool was invoked.  tool_name is the
\* Python value of step.tool.
execute_tool_directly(tool_name, tool_input, kind, ms) ==
    IF ~(IsStr(tool_name) /\ tool_name.v \in DOMAIN available_tools)
    THEN [result |-> PyDict(<< Item("error",
                         PyStr("Tool '" \o tool_name.v \o "' not available")) >>),
          posted |-> FALSE]
    ELSE IF tool_name.v \notin enabled_tools
    THEN [result |-> PyDict(<< Item("error",
                         PyStr("Tool '" \o tool_name.v \o "' not enabled")) >>),
          posted |-> FALSE]
    ELSE LET mcp_server_name == available_tools[tool_name.v]
         IN  IF mcp_server_name \in healthy
             THEN [result |-> call_tool(tool_name.v,
                                  PyDict(<< Item("text_input", PyStr(tool_input)) >>),
                                  server_url(mcp_server_name), kind, ms),
                   posted |-> TRUE]
             ELSE [result |-> PyDict(<< Item("error", PyStr("MCP server unavailable")) >>),
                   posted |-> FALSE]

(***************************************************************************)
(* Texts the planning LLM returns, and json.loads on them                  *)
(***************************************************************************)
PlanStep(n, tool, reason) ==
    PyDict(<< Item("step", PyInt(n)), Item("tool", PyStr(tool)),
              Item("reason", PyStr(reason)) >>)

Parsed(value) == [ok |-> TRUE, v |-> value]
\* an exception of type exc escaping the call `in`
Escaped(in, exc) == [in |-> in, exc |-> exc]
NoRaise == [in |-> "none", exc |-> "none"]
Raise(type, message) == [ok |-> FALSE, exc |-> type, msg |-> message]

\* the exception classes that do not derive from Exception
BaseExceptionOnly == {"CancelledError", "KeyboardInterrupt", "SystemExit"}

\* a handler that catches json.JSONDecodeError alone
except_JSONDecodeError(exc) == exc = "JSONDecodeError"

\* `except Exception as e`: whether the clause catches an exception of class exc
except_Exception(exc) == exc \notin BaseExceptionOnly

TextEmpty == "{\"steps\": []}"
TextProse == "I will look up the product first."
TextOne == "{\"steps\": [{\"step\": 1, \"tool\": \"t1\", \"reason\": \"lookup\"}]}"
TextTwo == "{\"steps\": [{\"step\": 1, \"tool\": \"t1\", \"reason\": \"lookup\"}, {\"step\": 2, \"tool\": \"t2\", \"reason\": \"owner\"}]}"
TextGhost == "{\"steps\": [{\"step\": 5, \"tool\": \"t9\", \"reason\": \"guess\"}, {\"step\": 2, \"tool\": \"t1\", \"reason\": \"lookup\"}]}"
TextThree == "{\"steps\": [{\"step\": 1, \"tool\": \"t2\", \"reason\": \"owner\"}, {\"step\": 2, \"tool\": \"t1\", \"reason\": \"lookup\"}, {\"step\": 3, \"tool\": \"t2\", \"reason\": \"owner\"}]}"
TextArray == "[1, 2]"
TextNoKey == "{\"steps\": [{\"tool\": \"t1\"}]}"
TextNull == "null"
TextNoSteps == "{\"plan\": []}"
TextStepsNumber == "{\"steps\": 7}"
TextStepsOfNumbers == "{\"steps\": [1]}"

\* json.loads(text)
json_loads(text) ==
    CASE text = TextEmpty -> Parsed(PyDict(<< Item("steps", PyList(<<>>)) >>))
      [] text = TextOne ->
            Parsed(PyDict(<< Item("steps", PyList(<< PlanStep(1, "t1", "lookup") >>)) >>))
      [] text = TextTwo ->
            Parsed(PyDict(<< Item("steps", PyList(<< PlanStep(1, "t1", "lookup"),
                                                     PlanStep(2, "t2", "owner") >>)) >>))
      [] text = TextGhost ->
            Parsed(PyDict(<< Item("steps", PyList(<< PlanStep(5, "t9", "guess"),
                                                     PlanStep(2, "t1", "lookup") >>)) >>))
      [] text = TextThree ->
            Parsed(PyDict(<< Item("steps", PyList(<< PlanStep(1, "t2", "owner"),
                                                     PlanStep(2, "t1", "lookup"),
                                                     PlanStep(3, "t2", "owner") >>)) >>))
      [] text = TextArray -> Parsed(PyList(<< PyInt(1), PyInt(2) >>))
      [] text = TextNoKey ->
            Parsed(PyDict(<< Item("steps",
                       PyList(<< PyDict(<< Item("tool", PyStr("t1")) >>) >>)) >>))
      [] text = TextNull -> Parsed(PyNone)
      [] text = TextNoSteps -> Parsed(PyDict(<< Item("plan", PyList(<<>>)) >>))
      [] text = TextStepsNumber -> Parsed(PyDict(<< Item("steps", PyInt(7)) >>))
      [] text = TextStepsOfNumbers ->
            Parsed(PyDict(<< Item("steps", PyList(<< PyInt(1) >>)) >>))
      [] OTHER -> Raise("JSONDecodeError", "Expecting value: line 1 column 1 (char 0)")

\* number of elements of the steps array of a text, 0 when it has none
StepCount(text) ==
    LET r == json_loads(text)
    IN  IF r.ok /\ IsDict(r.v) /\ DictGet(r.v, "steps", PyNone).t = "list"
        THEN Len(DictGet(r.v, "steps", PyNone).v)
        ELSE 0

AllTexts == { TextEmpty, TextProse, TextOne, TextTwo, TextGhost, TextThree,
              TextArray, TextNoKey, TextNull, TextNoSteps, TextStepsNumber,
              TextStepsOfNumbers }

\* the texts the LLM emits within the bound
PlanTexts == { text \in AllTexts : StepCount(text) <= MaxSteps }

(***************************************************************************)
(* models.py: DetailedStep, DetailedStrategy                               *)
(***************************************************************************)
\* an attribute that no statement has assigned yet: reading it raises
\* AttributeError
Unset == [t |-> "unset"]

\* variant of DetailedStep whose output starts as an empty dict
DetailedStep_with_output(step, tool, reason) ==
    [step |-> step, tool |-> tool, reason |-> reason,
     input |-> PyNone, output |-> PyDict(<<>>), execution_time_ms |-> PyNone,
     debug_info |-> PyNone, llm_prompt |-> PyNone, llm_response |-> PyNone,
     llm_execution_time_ms |-> PyNone]

\* variant of DetailedStep whose execution_time_ms starts as 0
DetailedStep_timed(step, tool, reason) ==
    [step |-> step, tool |-> tool, reason |-> reason,
     input |-> PyNone, output |-> PyNone, execution_time_ms |-> PyInt(0),
     debug_info |-> PyNone, llm_prompt |-> PyNone, llm_response |-> PyNone,
     llm_execution_time_ms |-> PyNone]

\* DetailedStep(step=, tool=, reason=): the execution fields default to None
DetailedStep(step, tool, reason) ==
    [step |-> step, tool |-> tool, reason |-> reason,
     input |-> PyNone, output |-> PyNone, execution_time_ms |-> PyNone,
     debug_info |-> PyNone,
     llm_prompt |-> PyNone, llm_response |-> PyNone,
     llm_execution_time_ms |-> PyNone]

\* DetailedStrategy(steps=, parse_error=, parse_error_message=, raw_response=)
DetailedStrategy(steps, parse_error, parse_error_message, raw_response) ==
    [steps |-> steps,
     strategy_llm_prompt |-> PyNone, strategy_llm_response |-> PyNone,
     strategy_llm_execution_time_ms |-> PyNone,
     parse_error |-> parse_error, parse_error_message |-> parse_error_message,
     raw_response |-> raw_response,
     final_response_llm_prompt |-> Unset, final_response_llm_response |-> Unset,
     final_response_llm_execution_time_ms |-> Unset, final_response |-> Unset]

\* the steps comprehension of from_json_string: step_data["step"],
\* step_data["tool"], step_data["reason"] of every element, in array order
RECURSIVE StepsFromJson(_)
StepsFromJson(xs) ==
    IF Len(xs) = 0 THEN Parsed(<<>>)
    ELSE LET d == xs[1]
         IN  IF ~IsDict(d)
             THEN Raise("TypeError", "'" \o d.t \o "' object is not subscriptable")
             ELSE IF ~DictHas(d, "step") THEN Raise("KeyError", "'step'")
             ELSE IF ~DictHas(d, "tool") THEN Raise("KeyError", "'tool'")
             ELSE IF ~DictHas(d, "reason") THEN Raise("KeyError", "'reason'")
             ELSE LET rest == StepsFromJson(Tail(xs))
                  IN  IF ~rest.ok THEN rest
                      ELSE Parsed(<< DetailedStep(DictGet(d, "step", PyNone),
                                                  DictGet(d, "tool", PyNone),
                                                  DictGet(d, "reason", PyNone)) >>
                                  \o rest.v)

\* the try block of from_json_string
FromJsonTry(json_str) ==
    LET data == json_loads(json_str)
    IN  IF ~data.ok THEN data
        ELSE IF ~IsDict(data.v)
        THEN Raise("AttributeError", "'" \o data.v.t \o "' object has no attribute 'get'")
        ELSE LET steps == DictGet(data.v, "steps", PyList(<<>>))
             IN  IF steps.t # "list"
                 THEN Raise("TypeError", "'" \o steps.t \o "' object is not iterable")
                 ELSE StepsFromJson(steps.v)

\* DetailedStrategy.from_json_string(json_str); the Japanese literal of the
\* marker step's reason is written in English
from_json_string(json_str) ==
    LET r == FromJsonTry(json_str)
    IN  IF r.ok
        THEN DetailedStrategy(r.v, FALSE, PyNone, PyStr(json_str))
        ELSE DetailedStrategy(
                 << DetailedStep(PyInt(1), PyStr("error"),
                        PyStr("JSON parse error in strategy planning: " \o r.msg)) >>,
                 TRUE, PyStr(r.msg), PyStr(json_str))

\* variant of is_executed without the empty-list case: all() alone
is_executed_vacuous(s) ==
    \A i \in 1..Len(s.steps) : ~IsNone(s.steps[i].execution_time_ms)

\* DetailedStrategy.is_executed()
is_executed(s) ==
    IF Len(s.steps) > 0
    THEN \A i \in 1..Len(s.steps) : ~IsNone(s.steps[i].execution_time_ms)
    ELSE FALSE

(***************************************************************************)
(* mcp_tool_manager.py: MCPTool, MCPToolManager                            *)
(***************************************************************************)
\* the rows of the MCP-Management catalog (/api/tools), in the order served
CatalogOrder == << "t1", "t2" >>
\* the catalog after the operator has deleted the row of t2
CatalogShrunk == << "t1" >>
Catalogs == {CatalogOrder, CatalogShrunk}

\* what the GET of /api/tools gives: a 200 with the rows, another status, or
\* an exception of httpx (connection refused, timeout)
CatalogReplies == {"ok", "status", "unreachable"}

CatalogServer(tool_key) ==
    IF tool_key = "t1" THEN "ProductMaster MCP" ELSE "CRM MCP"

\* the MCP server behind a server name of _check_tool_availability
ProbedServer(server_name) ==
    IF server_name = "ProductMaster MCP" THEN "productmaster" ELSE "crm"

\* MCPTool.from_dict(row) for a row without enabled and available keys
MCPTool(tool_key) ==
    [tool_key |-> tool_key, tool_name |-> "Tool " \o tool_key,
     description |-> "describes " \o tool_key,
     mcp_server_name |-> CatalogServer(tool_key),
     remarks |-> PyNone, enabled |-> TRUE, available |-> FALSE]

\* the keys of registered_tools in dict order
RegisteredKeys(reg) == SelectSeq(CatalogOrder, LAMBDA key : key \in DOMAIN reg)

\* a load that empties the registry when the catalog source fails
registered_after_load_emptying(reg, reply, catalog) ==
    IF reply = "ok"
    THEN [key \in DOMAIN reg \cup { catalog[i] : i \in 1..Len(catalog) } |->
             IF key \in { catalog[i] : i \in 1..Len(catalog) }
             THEN MCPTool(key)
             ELSE reg[key]]
    ELSE EmptyMap

\* _load_registered_tools: registered_tools after it. Every row of a 200
\* reply is stored under its tool_key; another status is logged; an exception
\* of the GET is caught and logged
registered_after_load(reg, reply, catalog) ==
    IF reply = "ok"
    THEN [key \in DOMAIN reg \cup { catalog[i] : i \in 1..Len(catalog) } |->
             IF key \in { catalog[i] : i \in 1..Len(catalog) }
             THEN MCPTool(key)
             ELSE reg[key]]
    ELSE reg

\* _load_registered_tools: the exception that leaves it, if any. The GET
\* raises httpx.ConnectError when the source is unreachable, inside the try
\* block whose handler is `except Exception`
load_registered_tools_raises(reply) ==
    IF reply = "unreachable" /\ ~except_Exception("ConnectError")
    THEN Raise("ConnectError", "All connection attempts failed")
    ELSE Parsed(PyNone)

\* _check_tool_availability: registered_tools after it, `up` the servers that
\* answer
registered_after_check(reg, up) ==
    [key \in DOMAIN reg |->
        IF ProbedServer(reg[key].mcp_server_name) \in up
        THEN [reg[key] EXCEPT !.available = TRUE]
        ELSE reg[key]]

\* MCPToolManager._load_registered_tools
load_registered_tools(reply, catalog) ==
    /\ registered_tools' = registered_after_load(registered_tools, reply, catalog)
    /\ UNCHANGED << healthy, ExecutorRegistryVars, manager_enabled_tools, AgentVars, ConversationVars, TurnVars >>

\* MCPToolManager._check_tool_availability
check_tool_availability ==
    /\ registered_tools' = registered_after_check(registered_tools, healthy)
    /\ UNCHANGED << healthy, ExecutorRegistryVars, manager_enabled_tools, AgentVars, ConversationVars, TurnVars >>

\* _initialize_enabled_status: the keys of the tools that are available
initialize_enabled_status(reg) ==
    PySet({ key \in DOMAIN reg : reg[key].available })

\* MCPToolManager.initialize: load, availability check, enabled keys
initialize(reply, catalog) ==
    /\ registered_tools' =
           registered_after_check(
               registered_after_load(registered_tools, reply, catalog), healthy)
    /\ manager_enabled_tools' =
           initialize_enabled_status(
               registered_after_check(
                   registered_after_load(registered_tools, reply, catalog), healthy))
    /\ UNCHANGED << healthy, ExecutorRegistryVars, TurnVars, AgentVars,
                    ConversationVars >>

\* MCPToolManager.get_enabled_tools(): the keys of the dict it returns, or
\* the AttributeError of reading self.enabled_tools before it was assigned
get_enabled_tools(reg, enabled_keys) ==
    IF enabled_keys.t = "unset"
    THEN Raise("AttributeError", "'MCPToolManager' object has no attribute 'enabled_tools'")
    ELSE Parsed({ key \in DOMAIN reg : key \in enabled_keys.v })

\* a toggle that switches the tool on whatever its state
toggle_tool_enabled_on(reg, tool_key) ==
    IF tool_key \notin DOMAIN reg
    THEN reg
    ELSE [reg EXCEPT ![tool_key].enabled = TRUE]

\* toggle_tool_enabled(tool_key): registered_tools after the call
toggle_tool_enabled_registry(reg, tool_key) ==
    IF tool_key \notin DOMAIN reg
    THEN reg
    ELSE [reg EXCEPT ![tool_key].enabled = ~@]

\* toggle_tool_enabled(tool_key): the value returned, tool.enabled as read
\* after the assignment
toggle_tool_enabled_return(reg, tool_key) ==
    IF tool_key \notin DOMAIN reg
    THEN FALSE
    ELSE toggle_tool_enabled_registry(reg, tool_key)[tool_key].enabled

\* MCPToolManager.toggle_tool_enabled(tool_key)
toggle_tool_enabled(tool_key) ==
    /\ registered_tools' = toggle_tool_enabled_registry(registered_tools, tool_key)
    /\ UNCHANGED << healthy, ExecutorRegistryVars, manager_enabled_tools, AgentVars, ConversationVars, TurnVars >>

(***************************************************************************)
(* strategy_engine.py: StrategyEngine                                      *)
(***************************************************************************)
NoToolsText == "No MCP tools are currently available."

\* the entry of one tool, before the system_prompt line
ToolInfo(tool_key, tool) ==
    "tool_name: " \o tool.tool_name \o "\ntool_key: " \o tool_key
        \o "\ndescription: " \o tool.description
        \o "\nserver: " \o tool.mcp_server_name

\* the tools the loop of _generate_tools_description_from_manager selects
ListedKeys(reg) == SelectSeq(RegisteredKeys(reg), LAMBDA key : reg[key].enabled)

RECURSIVE JoinInfos(_, _)
JoinInfos(keys, reg) ==
    IF Len(keys) = 0 THEN ""
    ELSE LET tool == reg[keys[1]]
             info == ToolInfo(keys[1], tool)
                        \o (IF tool.system_prompt # ""
                            THEN "\nsystem_prompt: " \o tool.system_prompt ELSE "")
         IN  IF Len(keys) = 1 THEN info
             ELSE info \o "\r\n\r\n" \o JoinInfos(Tail(keys), reg)

\* the tools whose tool_info text was built, with their flags at that time
Composed(keys, reg) ==
    [i \in 1..Len(keys) |->
        [tool_key |-> keys[i], enabled |-> reg[keys[i]].enabled,
         available |-> reg[keys[i]].available]]

\* StrategyEngine._generate_tools_description_from_manager: the block, or the
\* AttributeError of tool.system_prompt (MCPTool defines no such attribute);
\* composed: the keys for which the tool_info text was built
generate_tools_description_from_manager(reg) ==
    LET keys == ListedKeys(reg)
    IN  IF Len(keys) = 0
        THEN [ok |-> TRUE, v |-> NoToolsText, composed |-> <<>>]
        ELSE IF \E i \in 1..Len(keys) : "system_prompt" \notin DOMAIN reg[keys[i]]
        THEN LET first == CHOOSE i \in 1..Len(keys) :
                              /\ "system_prompt" \notin DOMAIN reg[keys[i]]
                              /\ \A j \in 1..(i - 1) : "system_prompt" \in DOMAIN reg[keys[j]]
             IN  [ok |-> FALSE, exc |-> "AttributeError",
                  msg |-> "'MCPTool' object has no attribute 'system_prompt'",
                  composed |-> Composed(SubSeq(keys, 1, first), reg)]
        ELSE [ok |-> TRUE, v |-> JoinInfos(keys, reg), composed |-> Composed(keys, reg)]

\* the keyword arguments plan_strategy passes to DetailedStep for one element
PlanStepKwargs(step_data) ==
    [step |-> DictGet(step_data, "step", PyInt(0)),
     tool |-> DictGet(step_data, "tool", PyStr("")),
     reason |-> DictGet(step_data, "reason", PyStr("")),
     input |-> PyStr(""), output |-> PyStr(""),
     execution_time_ms |-> PyInt(0),
     step_execution_debug |-> PyDict(<<>>)]

DetailedStepFields == DOMAIN DetailedStep(PyNone, PyNone, PyNone)

\* DetailedStep(**kwargs): the dataclass __init__ rejects an unknown keyword
DetailedStepInit(kwargs) ==
    IF DOMAIN kwargs \subseteq DetailedStepFields
    THEN Parsed([f \in DetailedStepFields |->
                    IF f \in DOMAIN kwargs THEN kwargs[f] ELSE PyNone])
    ELSE Raise("TypeError",
               "DetailedStep.__init__() got an unexpected keyword argument 'step_execution_debug'")

\* the for loop of plan_strategy over the steps array
RECURSIVE PlanSteps(_)
PlanSteps(xs) ==
    IF Len(xs) = 0 THEN Parsed(<<>>)
    ELSE IF ~IsDict(xs[1])
    THEN Raise("AttributeError", "'" \o xs[1].t \o "' object has no attribute 'get'")
    ELSE LET one == DetailedStepInit(PlanStepKwargs(xs[1]))
         IN  IF ~one.ok THEN one
             ELSE LET rest == PlanSteps(Tail(xs))
                  IN  IF ~rest.ok THEN rest ELSE Parsed(<< one.v >> \o rest.v)

\* the body of either try block of plan_strategy on a response text
PlanTry(response) ==
    LET strategy_data == json_loads(response)
    IN  IF ~strategy_data.ok THEN strategy_data
        ELSE IF ~IsDict(strategy_data.v)
        THEN Raise("AttributeError",
                   "'" \o strategy_data.v.t \o "' object has no attribute 'get'")
        ELSE LET steps == DictGet(strategy_data.v, "steps", PyList(<<>>))
             IN  IF steps.t # "list"
                 THEN Raise("TypeError", "'" \o steps.t \o "' object is not iterable")
                 ELSE PlanSteps(steps.v)

\* str.strip()
RECURSIVE lstrip(_)
lstrip(s) ==
    IF s # "" /\ SubSeq(s, 1, 1) \in {" ", "\n", "\r", "\t"}
    THEN lstrip(SubSeq(s, 2, Len(s))) ELSE s
RECURSIVE rstrip(_)
rstrip(s) ==
    IF s # "" /\ SubSeq(s, Len(s), Len(s)) \in {" ", "\n", "\r", "\t"}
    THEN rstrip(SubSeq(s, 1, Len(s) - 1)) ELSE s
strip(s) == rstrip(lstrip(s))

\* get_system_prompt_by_key outcomes: the row's text, an empty text, or the
\* HTTPException of a missing row or a database error
PromptOutcomes == {"ok", "empty", "raise"}
PromptText(key) == "<" \o key \o ">"

\* call_claude outcomes for the planning and repair calls
LLMRaise == "LLM_RAISES"
TextPadded == "  " \o TextEmpty \o "\n"
RepairTexts == PlanTexts \cup {TextPadded}

\* plan_strategy from its entry to its return, raise, or the await of the
\* repair call
plan_strategy_call(prompt, answer) ==
    /\ pc = "plan"
    /\ LET desc == generate_tools_description_from_manager(registered_tools)
           system_prompt == PromptText("strategy_planning")
                                \o "\r\n\r\n## Available MCP tools\r\n"
                                \o (IF desc.ok THEN desc.v ELSE "")
           result == PlanTry(answer)
       IN  IF prompt = "raise"
           THEN /\ pc' = "raised" /\ raised' = Escaped("plan_strategy", "HTTPException")
                /\ UNCHANGED << strategy, llm_response, llm_calls,
                                tools_description, described >>
           ELSE IF prompt = "empty"
           THEN /\ pc' = "raised" /\ raised' = Escaped("plan_strategy", "Exception")
                /\ UNCHANGED << strategy, llm_response, llm_calls,
                                tools_description, described >>
           ELSE IF ~desc.ok
           THEN /\ pc' = "raised" /\ raised' = Escaped("plan_strategy", desc.exc)
                /\ described' = desc.composed
                /\ UNCHANGED << strategy, llm_response, llm_calls, tools_description >>
           ELSE /\ tools_description' = desc.v
                /\ described' = desc.composed
                /\ llm_calls' = Append(llm_calls, "plan")
                /\ IF answer = LLMRaise
                   THEN /\ pc' = "raised" /\ raised' = Escaped("plan_strategy", "LLMError")
                        /\ UNCHANGED << strategy, llm_response >>
                   ELSE /\ llm_response' = answer
                        /\ LET recorded == [strategy EXCEPT
                                   !.strategy_llm_prompt = PyStr(system_prompt),
                                   !.strategy_llm_response = PyStr(answer),
                                   !.raw_response = PyStr(answer)]
                           IN  IF result.ok
                               THEN /\ strategy' = [recorded EXCEPT !.steps = result.v]
                                    /\ pc' = "planned"
                                    /\ UNCHANGED raised
                               ELSE IF result.exc = "JSONDecodeError"
                               THEN /\ strategy' = recorded
                                    /\ pc' = "repair"
                                    /\ UNCHANGED raised
                               ELSE /\ strategy' = recorded
                                    /\ pc' = "raised"
                                    /\ raised' = Escaped("plan_strategy", result.exc)
    /\ plan_enabled_tools' = enabled_tools
    /\ UNCHANGED << healthy, available_tools, enabled_tools, registered_tools,
                    manager_enabled_tools, AgentVars, ConversationVars, chat_result,
                    user_message, current_input, idx, calls, posts, synth >>

\* _fix_parse_error_with_llm(original_response, error_message): the text it
\* returns and whether it called the LLM
fix_parse_error_with_llm(original_response, prompt, answer) ==
    IF prompt # "ok"
    THEN [text |-> original_response, called |-> FALSE]
    ELSE IF answer = LLMRaise
    THEN [text |-> original_response, called |-> TRUE]
    ELSE [text |-> strip(answer), called |-> TRUE]

\* variant of permanent_failure that empties the steps without flagging
permanent_failure_unflagged(s, message) ==
    [s EXCEPT !.steps = <<>>]

\* variant of permanent_failure that leaves a planned step on the Strategy
permanent_failure_with_step(s, message) ==
    [s EXCEPT !.steps = << DetailedStep(PyInt(1), PyStr("t1"), PyStr("lookup")) >>,
              !.parse_error = TRUE,
              !.parse_error_message =
                  PyStr("parse failed again after repair: " \o message)]

\* the except branch of the second parse: the Strategy of a permanent failure
permanent_failure(s, message) ==
    [s EXCEPT !.steps = <<>>,
              !.parse_error = TRUE,
              !.parse_error_message =
                  PyStr("parse failed again after repair: " \o message)]

\* plan_strategy from the repair call to its return or raise
plan_strategy_repair(prompt, answer) ==
    /\ pc = "repair"
    /\ LET fixed == fix_parse_error_with_llm(llm_response, prompt, answer)
           result == PlanTry(fixed.text)
       IN  /\ llm_calls' = IF fixed.called THEN Append(llm_calls, "repair") ELSE llm_calls
           /\ llm_response' = fixed.text
           /\ IF result.ok
              THEN /\ strategy' = [strategy EXCEPT
                                      !.steps = result.v,
                                      !.strategy_llm_response = PyStr(fixed.text)]
                   /\ pc' = "planned"
                   /\ UNCHANGED raised
              ELSE IF result.exc = "JSONDecodeError"
              THEN /\ strategy' = permanent_failure(strategy, result.msg)
                   /\ pc' = "planned"
                   /\ UNCHANGED raised
              ELSE /\ pc' = "raised"
                   /\ raised' = Escaped("plan_strategy", result.exc)
                   /\ UNCHANGED strategy
    /\ UNCHANGED << healthy, available_tools, enabled_tools, registered_tools,
                    manager_enabled_tools, AgentVars, ConversationVars, chat_result, plan_enabled_tools,
                    user_message, current_input, idx, calls, posts,
                    tools_description, described, synth >>

(***************************************************************************)
(* integration_engine.py: IntegrationEngine.generate_final_response        *)
(***************************************************************************)
\* what generate_final_response saw of the Strategy it was called on
Seen(s) ==
    [parse_error |-> s.parse_error,
     steps |-> Len(s.steps),
     with_output |-> Cardinality({ i \in 1..Len(s.steps) : ~IsNone(s.steps[i].output) })]

NoSynth ==
    [path |-> "none", prompt |-> "none", n |-> 0,
     seen |-> [parse_error |-> FALSE, steps |-> 0, with_output |-> 0]]

\* str(x) as an f-string renders it
Str(x) ==
    CASE x.t = "none" -> "None"
      [] x.t = "str" -> x.v
      [] x.t = "int" -> ToString(x.v)
      [] x.t = "bool" -> (IF x.v THEN "True" ELSE "False")
      [] OTHER -> json_dumps(x)

\* json.dumps(value, ensure_ascii=False, indent=2)
RECURSIVE Spaces(_)
Spaces(n) == IF n = 0 THEN "" ELSE "  " \o Spaces(n - 1)

RECURSIVE json_dumps_indent(_, _)
RECURSIVE json_join_indent(_, _, _)
json_join_indent(xs, isDict, level) ==
    IF Len(xs) = 0 THEN ""
    ELSE LET one == Spaces(level)
                    \o (IF isDict
                        THEN "\"" \o json_escape(xs[1].k) \o "\": "
                                 \o json_dumps_indent(xs[1].v, level)
                        ELSE json_dumps_indent(xs[1], level))
         IN IF Len(xs) = 1 THEN one
            ELSE one \o ",\n" \o json_join_indent(Tail(xs), isDict, level)

json_dumps_indent(x, level) ==
    CASE x.t = "list" ->
            IF Len(x.v) = 0 THEN "[]"
            ELSE "[\n" \o json_join_indent(x.v, FALSE, level + 1) \o "\n"
                     \o Spaces(level) \o "]"
      [] x.t = "dict" ->
            IF Len(x.v) = 0 THEN "{}"
            ELSE "{\n" \o json_join_indent(x.v, TRUE, level + 1) \o "\n"
                     \o Spaces(level) \o "}"
      [] OTHER -> json_dumps(x)

\* one entry of results_summary
StepSummary(step) ==
    "[Step " \o Str(step.step) \o ": " \o Str(step.tool) \o "]\nreason: "
        \o Str(step.reason) \o "\nresult: " \o json_dumps_indent(step.output, 0)

\* "\n\n".join(entry for step in steps if step.output)
RECURSIVE JoinSummaries(_)
JoinSummaries(steps) ==
    IF Len(steps) = 0 THEN ""
    ELSE IF Len(steps) = 1 THEN StepSummary(steps[1])
    ELSE StepSummary(steps[1]) \o "\n\n" \o JoinSummaries(Tail(steps))

\* variant of results_summary that keeps the steps whose result is not empty
results_summary_of_findings(s) ==
    JoinSummaries(SelectSeq(s.steps,
        LAMBDA step : Truthy(DictGet(step.output, "result", PyNone))))

results_summary(s) ==
    JoinSummaries(SelectSeq(s.steps, LAMBDA step : Truthy(step.output)))

\* sum(s.execution_time_ms or 0 for s in steps)
RECURSIVE total_execution_time(_)
total_execution_time(steps) ==
    IF Len(steps) = 0 THEN 0
    ELSE (IF Truthy(steps[1].execution_time_ms) THEN steps[1].execution_time_ms.v ELSE 0)
             + total_execution_time(Tail(steps))

\* ", ".join(names)
RECURSIVE JoinNames(_)
JoinNames(names) ==
    IF Len(names) = 0 THEN ""
    ELSE IF Len(names) = 1 THEN names[1]
    ELSE names[1] \o ", " \o JoinNames(Tail(names))

\* the names of the steps that satisfy keep
ToolsOf(steps, keep(_)) ==
    LET kept == SelectSeq(steps, keep)
    IN  [i \in 1..Len(kept) |-> Str(kept[i].tool)]

\* template_vars
template_vars(msg, s) ==
    LET summary == results_summary(s)
        used == ToolsOf(s.steps, LAMBDA step : Truthy(step.tool))
        failed == ToolsOf(s.steps,
                      LAMBDA step : Truthy(step.tool) /\ ~Truthy(step.output))
    IN  [user_message |-> msg,
         results_summary |-> summary,
         total_execution_time |-> ToString(total_execution_time(s.steps)),
         tools_used |-> IF Len(used) > 0 THEN JoinNames(used) ELSE "none",
         tools_failed_text |-> IF Len(failed) > 0
                               THEN "failed tools: " \o JoinNames(failed) ELSE "",
         tools_summary |-> summary]

\* template.format(**values) for a template of named fields
RECURSIVE format(_, _)
format(template, values) ==
    LET open == FirstOf(template, {"{"})
        after == SubSeq(template, open + 1, Len(template))
        close == FirstOf(after, {"}"})
        name == SubSeq(after, 1, close - 1)
    IN  IF open = 0 THEN Parsed(template)
        ELSE IF close = 0
        THEN Raise("ValueError", "expected '}' before end of string")
        ELSE IF name \notin DOMAIN values
        THEN Raise("KeyError", "'" \o name \o "'")
        ELSE LET rest == format(SubSeq(after, close + 1, Len(after)), values)
             IN  IF rest.ok
                 THEN Parsed(SubSeq(template, 1, open - 1) \o values[name] \o rest.v)
                 ELSE rest

\* re.sub(r'\{[^}]+\}', '', template)
RECURSIVE remove_placeholders(_)
remove_placeholders(template) ==
    LET open == FirstOf(template, {"{"})
        after == SubSeq(template, open + 1, Len(template))
        close == FirstOf(after, {"}"})
    IN  IF open = 0 THEN template
        ELSE IF close > 1
        THEN SubSeq(template, 1, open - 1)
                 \o remove_placeholders(SubSeq(after, close + 1, Len(after)))
        ELSE SubSeq(template, 1, open) \o remove_placeholders(after)

\* the tool_result_response_prompt row, and the two fallback templates
TemplateText ==
    "Question: {user_message}\n\nResults:\n{results_summary}\n\nElapsed: {total_execution_time}ms"
FallbackEmpty ==
    "The summary prompt could not be obtained. State this fact.\n\nQuestion: {user_message}\n\nResults:\n{results_summary}\n\nElapsed: {total_execution_time}ms"
FallbackError ==
    "The summary prompt could not be obtained (error). State this fact.\n\nQuestion: {user_message}\n\nResults:\n{results_summary}\n\nElapsed: {total_execution_time}ms"

\* a tool_result_response_prompt row that names a variable template_vars
\* does not hold
TemplateUnknown ==
    "Question: {user_message}\n\nCustomer: {customer_name}\n\nResults:\n{results_summary}"

\* the template the tool-result path uses
summary_template(prompt) ==
    IF prompt = "ok" THEN TemplateText
    ELSE IF prompt = "unknown" THEN TemplateUnknown
    ELSE IF prompt = "empty" THEN FallbackEmpty
    ELSE FallbackError

\* the except KeyError branch: placeholders removed, then format again
format_without_placeholders(stripped, values) ==
    format(stripped, [k \in { n \in DOMAIN values : Contains(stripped, n) } |-> values[k]])

\* variant of safe_format without the except KeyError branch
safe_format_strict(template, values) == format(template, values)

\* the "safe" format of the template
safe_format(template, values) ==
    LET first == format(template, values)
    IN  IF ~first.ok /\ first.exc = "KeyError"
        THEN format_without_placeholders(remove_placeholders(template), values)
        ELSE first

\* the system prompt of the tool-result path
tool_result_prompt(msg, s, prompt) ==
    safe_format(summary_template(prompt), template_vars(msg, s))

\* variant of synthesis_path that answers directly only when no step at all
\* has been executed
synthesis_path_none_executed(s) ==
    IF s.parse_error THEN "parse_error"
    ELSE IF \A i \in 1..Len(s.steps) : IsNone(s.steps[i].execution_time_ms)
    THEN "direct"
    ELSE "tool_result"

\* variant of synthesis_path that answers an already answered Strategy directly
synthesis_path_once(s) ==
    IF s.parse_error THEN "parse_error"
    ELSE IF s.final_response # Unset THEN "direct"
    ELSE IF Len(s.steps) = 0 \/ ~is_executed(s) THEN "direct"
    ELSE "tool_result"

\* the branch generate_final_response takes on a Strategy
synthesis_path(s) ==
    IF s.parse_error THEN "parse_error"
    ELSE IF Len(s.steps) = 0 \/ ~is_executed(s) THEN "direct"
    ELSE "tool_result"

\* the deterministic completion of the synthesis call
LLMEcho == "LLM_ECHO"
call_claude(system_prompt, user_text) ==
    "ANSWER(" \o system_prompt \o " | " \o user_text \o ")"

\* generate_final_response(user_message, executed_strategy): a coroutine on
\* the Strategy object, callable as soon as plan_strategy has returned it
generate_final_response(prompt, llm, ms) ==
    /\ pc \in {"planned", "run", "executed", "answered"}
    /\ synth.n < MaxAnswers
    /\ LET path == synthesis_path(strategy)
           base == PromptText("direct_response_prompt")
           direct_prompt ==
               IF path = "parse_error"
               THEN base \o "\n\nNote: strategy planning failed, answering directly."
               ELSE base
           built == IF path = "tool_result"
                    THEN tool_result_prompt(user_message, strategy, prompt)
                    ELSE Parsed(direct_prompt)
           system_prompt == built.v
           user_text == IF path = "tool_result"
                        THEN "Answer on the basis of the above."
                        ELSE user_message
           recorded_prompt ==
               IF path = "tool_result" THEN system_prompt
               ELSE direct_prompt \o "\n\nUser question: " \o user_message
           response == call_claude(system_prompt, user_text)
       IN  IF path # "tool_result" /\ prompt = "raise"
           THEN /\ pc' = "raised" /\ raised' = Escaped("generate_final_response", "HTTPException")
                /\ UNCHANGED << strategy, llm_calls, synth >>
           ELSE IF path # "tool_result" /\ prompt = "empty"
           THEN /\ pc' = "raised" /\ raised' = Escaped("generate_final_response", "Exception")
                /\ UNCHANGED << strategy, llm_calls, synth >>
           ELSE IF ~built.ok
           THEN /\ pc' = "raised" /\ raised' = Escaped("generate_final_response", built.exc)
                /\ UNCHANGED << strategy, llm_calls, synth >>
           ELSE /\ llm_calls' = Append(llm_calls, "answer")
                /\ IF llm = LLMRaise
                   THEN /\ pc' = "raised" /\ raised' = Escaped("generate_final_response", "LLMError")
                        /\ UNCHANGED << strategy, synth >>
                   ELSE /\ strategy' = [strategy EXCEPT
                               !.final_response_llm_prompt = PyStr(recorded_prompt),
                               !.final_response_llm_response = PyStr(response),
                               !.final_response_llm_execution_time_ms = PyInt(ms),
                               !.final_response = PyStr(response)]
                        /\ synth' = [path |-> path, prompt |-> prompt,
                                     n |-> synth.n + 1, seen |-> Seen(strategy)]
                        /\ pc' = IF pc \in {"executed", "answered"}
                                 THEN "answered" ELSE pc
                        /\ UNCHANGED raised
    /\ UNCHANGED << healthy, available_tools, enabled_tools, registered_tools,
                    manager_enabled_tools, AgentVars, ConversationVars, chat_result, plan_enabled_tools,
                    user_message, current_input, idx, calls, posts,
                    llm_response, tools_description, described >>

(***************************************************************************)
(* MCPExecutor.execute_strategy                                            *)
(***************************************************************************)
\* variant of clean_result that forwards the result as it is
clean_result_identity(result) == result

\* variant of clean_result that forwards neither debug_info nor error
clean_result_payload_only(result) ==
    IF IsDict(result)
    THEN DictWithout(DictWithout(result, "debug_info"), "error")
    ELSE result

\* clean_result: the result without its debug_info item
clean_result(result) ==
    IF IsDict(result) THEN DictWithout(result, "debug_info") ELSE result

\* variant of StepExecuted that records the user message as every input
StepExecuted_user_message(step, input, result, ms) ==
    [step EXCEPT !.input = PyStr(user_message),
                 !.output = result,
                 !.execution_time_ms = PyInt(ms),
                 !.debug_info = IF IsDict(result)
                                THEN DictGet(result, "debug_info", PyDict(<<>>))
                                ELSE PyDict(<<>>)]

\* variant of StepExecuted that records nothing for an error-shaped result
StepExecuted_dropping_errors(step, input, result, ms) ==
    IF IsDict(result) /\ DictHas(result, "error")
    THEN step
    ELSE [step EXCEPT !.input = PyStr(input),
                      !.output = result,
                      !.execution_time_ms = PyInt(ms),
                      !.debug_info = DictGet(result, "debug_info", PyDict(<<>>))]

\* variant of StepExecuted that also rewrites the reason of the step
StepExecuted_annotating(step, input, result, ms) ==
    [step EXCEPT !.input = PyStr(input),
                 !.output = result,
                 !.execution_time_ms = PyInt(ms),
                 !.reason = PyStr("done"),
                 !.debug_info = IF IsDict(result)
                                THEN DictGet(result, "debug_info", PyDict(<<>>))
                                ELSE PyDict(<<>>)]

\* the fields one loop iteration writes on a step
StepExecuted(step, input, result, ms) ==
    [step EXCEPT !.input = PyStr(input),
                 !.output = result,
                 !.execution_time_ms = PyInt(ms),
                 !.debug_info = IF IsDict(result)
                                THEN DictGet(result, "debug_info", PyDict(<<>>))
                                ELSE PyDict(<<>>)]

\* the fields the parse-error branch writes on the marker step
StepParseError(step, input, s) ==
    [step EXCEPT !.input = PyStr(input),
                 !.output = PyDict(<<
                     Item("error", PyStr("JSON parse error occurred in strategy planning")),
                     Item("parse_error_message", s.parse_error_message),
                     Item("raw_llm_response", s.raw_response),
                     Item("suggestion", PyStr("the system prompt needs improvement")) >>),
                 !.execution_time_ms = PyInt(0),
                 !.debug_info = PyDict(<<
                     Item("parse_error", PyBool(TRUE)),
                     Item("error_message", s.parse_error_message),
                     Item("raw_response", s.raw_response) >>)]

\* a turn starts from a Strategy built by DetailedStrategy.from_json_string
StartFromJson(msg, text) ==
    /\ pc = "idle"
    /\ pc' = "planned"
    /\ user_message' = msg
    /\ strategy' = from_json_string(text)
    /\ plan_enabled_tools' = enabled_tools
    /\ UNCHANGED << healthy, available_tools, enabled_tools, registered_tools,
                    manager_enabled_tools, AgentVars, ConversationVars, chat_result,
                    current_input, idx, raised, calls, posts, llm_response,
                    llm_calls, tools_description, described, synth >>

\* a turn starts with a fresh DetailedStrategy handed to plan_strategy
StartTurn(msg) ==
    /\ pc = "idle"
    /\ pc' = "plan"
    /\ user_message' = msg
    /\ strategy' = DetailedStrategy(<<>>, FALSE, PyNone, PyNone)
    /\ UNCHANGED << healthy, available_tools, enabled_tools, registered_tools,
                    manager_enabled_tools, AgentVars, ConversationVars, chat_result, plan_enabled_tools,
                    current_input, idx, raised, calls, posts, llm_response,
                    llm_calls, tools_description, described, synth >>

\* variant of execute_strategy_begin without the parse-error branch
execute_strategy_begin_unguarded ==
    /\ pc = "planned"
    /\ current_input' = user_message
    /\ pc' = IF Len(strategy.steps) = 0 THEN "executed" ELSE "run"
    /\ idx' = 1
    /\ UNCHANGED << healthy, available_tools, enabled_tools, registered_tools,
                    manager_enabled_tools, AgentVars, ConversationVars, chat_result, plan_enabled_tools,
                    user_message, strategy, raised, calls, posts, llm_response,
                    llm_calls, tools_description, described, synth >>

\* execute_strategy up to its first await: the parse-error branch, or the
\* entry of the for loop
execute_strategy_begin ==
    /\ pc = "planned"
    /\ current_input' = user_message
    /\ IF strategy.parse_error
       THEN IF Len(strategy.steps) = 0
            THEN \* strategy.steps[0] raises IndexError
                 /\ pc' = "raised"
                 /\ raised' = Escaped("execute_strategy", "IndexError")
                 /\ UNCHANGED << strategy, idx >>
            ELSE /\ strategy' = [strategy EXCEPT !.steps[1] =
                                    StepParseError(@, user_message, strategy)]
                 /\ pc' = "executed"
                 /\ UNCHANGED << raised, idx >>
       ELSE /\ pc' = IF Len(strategy.steps) = 0 THEN "executed" ELSE "run"
            /\ idx' = 1
            /\ UNCHANGED << strategy, raised >>
    /\ UNCHANGED << healthy, available_tools, enabled_tools, registered_tools,
                    manager_enabled_tools, AgentVars, ConversationVars, chat_result, plan_enabled_tools,
                    user_message, calls, posts, llm_response, llm_calls,
                    tools_description, described, synth >>

\* one iteration of the for loop of execute_strategy
execute_strategy_step(kind, ms) ==
    /\ pc = "run"
    /\ LET step == strategy.steps[idx]
           r == execute_tool_directly(step.tool, current_input, kind, ms)
           known == IsStr(step.tool) /\ step.tool.v \in DOMAIN available_tools
       IN  /\ calls' = Append(calls,
                          [tool |-> step.tool, input |-> current_input,
                           known |-> known,
                           enabled |-> IsStr(step.tool) /\ step.tool.v \in enabled_tools,
                           up |-> known /\ available_tools[step.tool.v] \in healthy,
                           reply |-> IF r.posted THEN kind ELSE "none"])
           /\ posts' = IF r.posted
                       THEN Append(posts, [i |-> idx, tool |-> step.tool.v,
                                           text_input |-> current_input,
                                           server |-> available_tools[step.tool.v],
                                           reached |-> kind # "refused"])
                       ELSE posts
           /\ strategy' = [strategy EXCEPT !.steps[idx] =
                               StepExecuted(@, current_input, r.result, ms)]
           /\ current_input' = json_dumps(clean_result(r.result))
    /\ idx' = idx + 1
    /\ pc' = IF idx = Len(strategy.steps) THEN "executed" ELSE "run"
    /\ UNCHANGED << healthy, available_tools, enabled_tools, registered_tools,
                    manager_enabled_tools, AgentVars, ConversationVars, chat_result, plan_enabled_tools,
                    user_message, raised, llm_response, llm_calls,
                    tools_description, described, synth >>

(***************************************************************************)
(* ai_agent_new.py: AIAgent.process_message, the try block around a turn   *)
(***************************************************************************)
\* process_message has not returned in this turn
NoResult == [kind |-> "none"]

\* the fixed message of the failure result (a Japanese sentence in the source)
ApologyMessage == "We are sorry. An error occurred during processing."

\* str(e), abbreviated to the name of the class of e
str_e(e) == e.exc

\* the dict of the except clause
failure_result(e) ==
    [message |-> ApologyMessage, mcp_enabled |-> FALSE, error |-> str_e(e)]

\* the dict returned when the try block ran to its end; the response text is
\* the one generate_final_response stored on the Strategy
success_result(executed_strategy) ==
    [message |-> executed_strategy.final_response.v,
     strategy |-> executed_strategy, mcp_enabled |-> TRUE]

\* an exception escaped a call of the try block: it reaches the except
\* clause, or the caller when the clause does not catch its class
process_message_except ==
    /\ pc = "raised"
    /\ pc' = "returned"
    /\ chat_result' =
           IF except_Exception(raised.exc)
           THEN [kind |-> "return", dict |-> failure_result(raised)]
           ELSE [kind |-> "raise", exc |-> raised.exc]
    /\ UNCHANGED << healthy, available_tools, enabled_tools, registered_tools,
                    manager_enabled_tools, AgentVars, ConversationVars, user_message, strategy,
                    current_input, idx, raised, calls, posts, llm_response,
                    llm_calls, tools_description, described, synth,
                    plan_enabled_tools >>

\* the try block ran to its end: the return statement after the synthesis
process_message_return ==
    /\ pc = "answered"
    /\ pc' = "returned"
    /\ chat_result' = [kind |-> "return", dict |-> success_result(strategy)]
    /\ UNCHANGED << healthy, available_tools, enabled_tools, registered_tools,
                    manager_enabled_tools, AgentVars, ConversationVars, user_message, strategy,
                    current_input, idx, raised, calls, posts, llm_response,
                    llm_calls, tools_description, described, synth,
                    plan_enabled_tools >>

\* the turn is over: its Strategy is discarded
EndTurn ==
    /\ pc \in {"executed", "answered", "raised", "returned"}
    /\ pc' = "idle"
    /\ user_message' = ""
    /\ strategy' = DetailedStrategy(<<>>, FALSE, PyNone, PyNone)
    /\ current_input' = ""
    /\ idx' = 0
    /\ raised' = NoRaise
    /\ calls' = <<>>
    /\ posts' = <<>>
    /\ llm_response' = ""
    /\ llm_calls' = <<>>
    /\ tools_description' = ""
    /\ described' = <<>>
    /\ synth' = NoSynth
    /\ chat_result' = NoResult
    /\ plan_enabled_tools' = {}
    /\ UNCHANGED << healthy, available_tools, enabled_tools, registered_tools,
                    manager_enabled_tools, AgentVars, ConversationVars >>

(***************************************************************************)
(* MCPExecutor: discover_tools, toggle_tool; the servers                   *)
(***************************************************************************)
\* discover_tools: `answering` are the servers whose health check passes and
\* whose /tools/descriptions request succeeds
discover_tools(answering) ==
    /\ answering \subseteq healthy
    /\ available_tools' =
           [n \in UNION { ServerTools(sv) : sv \in answering } |->
               CHOOSE sv \in answering : n \in ServerTools(sv)]
    /\ UNCHANGED << healthy, enabled_tools, registered_tools,
                    manager_enabled_tools, AgentVars, ConversationVars, TurnVars >>

\* toggle_tool(tool_name): enabled_tools after the call
toggle_tool_set(available, enabled, tool_name) ==
    IF tool_name \notin DOMAIN available
    THEN enabled
    ELSE IF tool_name \in enabled
    THEN enabled \ {tool_name}
    ELSE enabled \cup {tool_name}

\* toggle_tool(tool_name): the value returned
toggle_tool_return(available, enabled, tool_name) ==
    IF tool_name \notin DOMAIN available
    THEN FALSE
    ELSE IF tool_name \in enabled
    THEN FALSE
    ELSE TRUE

\* MCPManager.toggle_tool(tool_name) on the available_tools and enabled_tools
\* of an MCPManager: enabled_tools after the call
MCPManager_toggle_tool_set(available, enabled, tool_name) ==
    IF tool_name \in DOMAIN available
    THEN IF tool_name \in enabled
         THEN enabled \ {tool_name}
         ELSE enabled \cup {tool_name}
    ELSE enabled

\* MCPManager.toggle_tool(tool_name): the value returned
MCPManager_toggle_tool_return(available, enabled, tool_name) ==
    IF tool_name \in DOMAIN available
    THEN IF tool_name \in enabled THEN FALSE ELSE TRUE
    ELSE FALSE

\* MCPExecutor.toggle_tool(tool_name)
toggle_tool(tool_name) ==
    /\ enabled_tools' = toggle_tool_set(available_tools, enabled_tools, tool_name)
    /\ UNCHANGED << healthy, available_tools, registered_tools,
                    manager_enabled_tools, AgentVars, ConversationVars, TurnVars >>

ServerDown(sv) ==
    /\ sv \in healthy
    /\ healthy' = healthy \ {sv}
    /\ UNCHANGED << available_tools, enabled_tools, registered_tools,
                    manager_enabled_tools, AgentVars, ConversationVars, TurnVars >>

ServerUp(sv) ==
    /\ sv \notin healthy
    /\ healthy' = healthy \cup {sv}
    /\ UNCHANGED << available_tools, enabled_tools, registered_tools,
                    manager_enabled_tools, AgentVars, ConversationVars, TurnVars >>

(***************************************************************************)
(* Specification                                                           *)
(***************************************************************************)
(***************************************************************************)
(* ai_agent.py: AIAgent.process_message and its DebugCollector             *)
(***************************************************************************)
\* the process_message calls in flight on the one AIAgent
AgentTurns == {1, 2}

\* a plan as execute_detailed_strategy sees it: per step, whether
\* execute_tool_directly awaits a server ("call") or returns an error dict
\* without suspending ("refuse": tool not available or not enabled)
AgentPlans == UNION { [1..n -> {"call", "refuse"}] : n \in 0..MaxSteps }

\* DebugCollector.add_llm_trace / add_tool_trace: the ExecutionTrace appended,
\* tagged with the call whose event it records
LLMTrace(t) == [turn |-> t, step_type |-> "llm_interaction"]
ToolTrace(t, i) == [turn |-> t, step_type |-> "tool_execution", step |-> i]

IdleFrame ==
    [pc |-> "idle", plan |-> <<>>, i |-> 0, results |-> <<>>,
     returned |-> [kind |-> "none"]]

\* execute_detailed_strategy of call t from the step after an await (or from
\* its entry) up to the next await or to the return of process_message; c is
\* self.debug_collector, read at every trace and at the return
RECURSIVE execute_detailed_strategy_from(_, _, _, _, _, _, _)
execute_detailed_strategy_from(t, plan, i, results, traces, c, llm) ==
    IF i > Len(plan)
    THEN [frame |-> [pc |-> "returned", plan |-> plan, i |-> i, results |-> results,
                     returned |->
                         IF llm = LLMRaise
                         THEN [kind |-> "failure"]
                         ELSE [kind |-> "success", results |-> results,
                               debug_traces |-> c]],
          traces |-> traces]
    ELSE IF plan[i] = "call"
    THEN [frame |-> [pc |-> "awaiting", plan |-> plan, i |-> i, results |-> results,
                     returned |-> [kind |-> "none"]],
          traces |-> traces]
    ELSE execute_detailed_strategy_from(t, plan, i + 1,
             Append(results, [turn |-> t, step |-> i]),
             [traces EXCEPT ![c] = Append(@, ToolTrace(t, i))], c, llm)

\* process_message from its entry to its first await or its return: a new
\* DebugCollector becomes self.debug_collector, the plan is made (call_claude
\* is synchronous, its trace goes to the new collector) and the steps start
AIAgent_process_message(t, outcome, plan, llm) ==
    /\ agent_turns[t].pc = "idle"
    /\ debug_collector' = t
    /\ IF outcome = "no_mcp"
       THEN /\ collector_traces' = [collector_traces EXCEPT ![t] = <<>>]
            /\ agent_turns' = [agent_turns EXCEPT ![t] =
                   [IdleFrame EXCEPT !.pc = "returned",
                       !.returned = IF llm = LLMRaise THEN [kind |-> "failure"]
                                    ELSE [kind |-> "plain"]]]
       ELSE IF outcome = "fail"
       THEN /\ collector_traces' = [collector_traces EXCEPT ![t] = << LLMTrace(t) >>]
            /\ agent_turns' = [agent_turns EXCEPT ![t] =
                   [IdleFrame EXCEPT !.pc = "returned",
                                     !.returned = [kind |-> "failure"]]]
       ELSE /\ collector_traces' =
                   execute_detailed_strategy_from(t, plan, 1, <<>>,
                       [collector_traces EXCEPT ![t] = << LLMTrace(t) >>],
                       t, llm).traces
            /\ agent_turns' = [agent_turns EXCEPT ![t] =
                   execute_detailed_strategy_from(t, plan, 1, <<>>,
                       [collector_traces EXCEPT ![t] = << LLMTrace(t) >>],
                       t, llm).frame]
    /\ UNCHANGED << healthy, ExecutorRegistryVars, registered_tools,
                    manager_enabled_tools, TurnVars, ConversationVars >>

\* the await of execute_tool_directly completes: the result is appended, the
\* tool trace goes to whatever self.debug_collector is now, and the loop
\* goes on to the next await or to the return
AIAgent_process_message_resume(t, llm) ==
    /\ agent_turns[t].pc = "awaiting"
    /\ collector_traces' =
           execute_detailed_strategy_from(t, agent_turns[t].plan, agent_turns[t].i + 1,
               Append(agent_turns[t].results, [turn |-> t, step |-> agent_turns[t].i]),
               [collector_traces EXCEPT ![debug_collector] =
                    Append(@, ToolTrace(t, agent_turns[t].i))],
               debug_collector, llm).traces
    /\ agent_turns' = [agent_turns EXCEPT ![t] =
           execute_detailed_strategy_from(t, agent_turns[t].plan, agent_turns[t].i + 1,
               Append(agent_turns[t].results, [turn |-> t, step |-> agent_turns[t].i]),
               [collector_traces EXCEPT ![debug_collector] =
                    Append(@, ToolTrace(t, agent_turns[t].i))],
               debug_collector, llm).frame]
    /\ UNCHANGED << debug_collector, healthy, ExecutorRegistryVars, registered_tools,
                    manager_enabled_tools, TurnVars, ConversationVars >>

InitAgent ==
    /\ debug_collector = 0
    /\ collector_traces = [t \in AgentTurns |-> <<>>]
    /\ agent_turns = [t \in AgentTurns |-> IdleFrame]

(***************************************************************************)
(* conversation_manager.py: ConversationManager                            *)
(***************************************************************************)
Sessions == {"s1", "s2"}

\* add_message calls made on one session
MaxMessages == 22

\* the number of entries add_message keeps per session
HistoryLimit == 20

\* xs[-k:] for k >= 0 (-0 is 0: the whole list)
PySliceLast(xs, k) ==
    IF k = 0 \/ k >= Len(xs) THEN xs
    ELSE SubSeq(xs, Len(xs) - k + 1, Len(xs))

\* the n-th exchange of a session; timestamp and strategy_info, which no
\* method reads, are left out of the entry
ConversationEntry(n) ==
    [user_message |-> "q" \o ToString(n), ai_response |-> "a" \o ToString(n)]

\* self.conversations after add_message(session_id, ...)
conversations_after_add(convs, session_id, entry) ==
    [k \in DOMAIN convs \cup {session_id} |->
        IF k # session_id THEN convs[k]
        ELSE IF session_id \notin DOMAIN convs THEN << entry >>
        ELSE IF Len(convs[k]) + 1 > HistoryLimit
        THEN PySliceLast(Append(convs[k], entry), HistoryLimit)
        ELSE Append(convs[k], entry)]

\* ConversationManager.add_message with the next exchange of the session
add_message(session_id) ==
    /\ added[session_id] < MaxMessages
    /\ conversations' = conversations_after_add(conversations, session_id,
                            ConversationEntry(added[session_id] + 1))
    /\ added' = [added EXCEPT ![session_id] = @ + 1]
    /\ UNCHANGED << healthy, ExecutorRegistryVars, registered_tools,
                    manager_enabled_tools, TurnVars, AgentVars >>

\* ConversationManager.clear_session(session_id)
clear_session(session_id) ==
    /\ conversations' =
           IF session_id \in DOMAIN conversations
           THEN [k \in DOMAIN conversations \ {session_id} |-> conversations[k]]
           ELSE conversations
    /\ added' = [added EXCEPT ![session_id] = 0]
    /\ UNCHANGED << healthy, ExecutorRegistryVars, registered_tools,
                    manager_enabled_tools, TurnVars, AgentVars >>

\* "\n".join of the two lines of each message
RECURSIVE ContextParts(_)
ContextParts(msgs) ==
    IF Len(msgs) = 0 THEN ""
    ELSE "User: " \o msgs[1].user_message \o "\nAI: " \o msgs[1].ai_response
             \o (IF Len(msgs) = 1 THEN "" ELSE "\n" \o ContextParts(Tail(msgs)))

\* the text get_conversation_context builds from the messages it selected
\* (the header and the user label are Japanese in the source, ASCII here)
ContextOf(msgs) ==
    IF Len(msgs) = 0 THEN ""
    ELSE "## Conversation so far\n" \o ContextParts(msgs) \o "\n\n"

\* ConversationManager.get_conversation_context(session_id, max_messages)
get_conversation_context(convs, session_id, max_messages) ==
    IF session_id \notin DOMAIN convs THEN ""
    ELSE ContextOf(PySliceLast(convs[session_id], max_messages))

InitConversations ==
    /\ conversations = << >>
    /\ added = [s \in Sessions |-> 0]

Init ==
    /\ healthy = Servers
    /\ available_tools = EmptyMap
    /\ enabled_tools = {}
    /\ registered_tools = EmptyMap
    /\ pc = "idle"
    /\ user_message = ""
    /\ strategy = DetailedStrategy(<<>>, FALSE, PyNone, PyNone)
    /\ current_input = ""
    /\ idx = 0
    /\ raised = NoRaise
    /\ calls = <<>>
    /\ posts = <<>>
    /\ llm_response = ""
    /\ llm_calls = <<>>
    /\ tools_description = ""
    /\ described = <<>>
    /\ synth = NoSynth
    /\ chat_result = NoResult
    /\ plan_enabled_tools = {}
    /\ manager_enabled_tools = Unset
    /\ InitAgent
    /\ InitConversations

\* one user turn: construction of the Strategy, plan_strategy, execute_strategy
TurnNext ==
    \/ \E msg \in Messages, text \in PlanTexts : StartFromJson(msg, text)
    \/ \E msg \in Messages : StartTurn(msg)
    \/ \E prompt \in PromptOutcomes, answer \in PlanTexts \cup {LLMRaise} :
           plan_strategy_call(prompt, answer)
    \/ \E prompt \in PromptOutcomes, answer \in RepairTexts \cup {LLMRaise} :
           plan_strategy_repair(prompt, answer)
    \/ execute_strategy_begin
    \/ \E kind \in Replies, ms \in Durations : execute_strategy_step(kind, ms)
    \/ process_message_except
    \/ EndTurn

\* the operator's and the servers' moves on the executor's registry
ExecutorRegistryNext ==
    \/ \E answering \in SUBSET Servers : discover_tools(answering)
    \/ \E tool_name \in ToolNames \cup {"t9"} : toggle_tool(tool_name)

\* the moves on the MCPToolManager registry
ManagerNext ==
    \/ \E reply \in CatalogReplies, catalog \in Catalogs :
           load_registered_tools(reply, catalog)
    \/ check_tool_availability
    \/ \E reply \in CatalogReplies, catalog \in Catalogs : initialize(reply, catalog)
    \/ \E tool_key \in ToolNames \cup {"t9"} : toggle_tool_enabled(tool_key)

ServerNext ==
    \/ \E sv \in Servers : ServerDown(sv)
    \/ \E sv \in Servers : ServerUp(sv)

SynthesisNext ==
    \/ \E prompt \in PromptOutcomes, llm \in {LLMEcho, LLMRaise}, ms \in Durations :
           generate_final_response(prompt, llm, ms)
    \/ process_message_return

\* planning and execution of turns against the executor's registry
Next == TurnNext \/ ExecutorRegistryNext \/ ServerNext

Spec == Init /\ [][Next]_vars

\* planning of turns against the MCPToolManager registry
NextPlan == TurnNext \/ ManagerNext \/ ServerNext

SpecPlan == Init /\ [][NextPlan]_vars

\* turns with synthesis, on an executor that has discovered both tools and
\* has t1 enabled
InitSynth ==
    /\ healthy = Servers
    /\ available_tools = [n \in ToolNames |-> IF n = "t1" THEN "productmaster" ELSE "crm"]
    /\ enabled_tools = {"t1"}
    /\ registered_tools = EmptyMap
    /\ pc = "idle"
    /\ user_message = ""
    /\ strategy = DetailedStrategy(<<>>, FALSE, PyNone, PyNone)
    /\ current_input = ""
    /\ idx = 0
    /\ raised = NoRaise
    /\ calls = <<>>
    /\ posts = <<>>
    /\ llm_response = ""
    /\ llm_calls = <<>>
    /\ tools_description = ""
    /\ described = <<>>
    /\ synth = NoSynth
    /\ chat_result = NoResult
    /\ plan_enabled_tools = {}
    /\ manager_enabled_tools = Unset
    /\ InitAgent
    /\ InitConversations

NextSynth == TurnNext \/ SynthesisNext

\* the two registries without turns: the operator's toggles, the start-up
\* steps and the servers
NextRegistry == ExecutorRegistryNext \/ ManagerNext \/ ServerNext

SpecRegistry == Init /\ [][NextRegistry]_vars

\* a step of execute_strategy whose POST times out
TimeoutNext ==
    \E ms \in Durations : execute_strategy_step("timeout", ms)

NextRun == TurnNext \/ TimeoutNext

\* turns on the executor of InitSynth, every tool call returning or timing
\* out: the event loop resumes execute_strategy after each await
SpecRun ==
    /\ InitSynth
    /\ [][NextRun]_vars
    /\ WF_vars(execute_strategy_begin)
    /\ WF_vars(\E kind \in Replies \cup {"timeout"}, ms \in Durations :
                  execute_strategy_step(kind, ms))

SpecSynth == InitSynth /\ [][NextSynth]_vars

\* two process_message calls on the AIAgent of ai_agent.py, interleaved at
\* the awaits of their tool calls
AgentNext ==
    \/ \E t \in AgentTurns, outcome \in {"plan", "fail", "no_mcp"},
          plan \in AgentPlans, llm \in {LLMEcho, LLMRaise} :
           AIAgent_process_message(t, outcome, plan, llm)
    \/ \E t \in AgentTurns, llm \in {LLMEcho, LLMRaise} :
           AIAgent_process_message_resume(t, llm)

SpecAgent == Init /\ [][AgentNext]_vars

\* the calls on the ConversationManager
ConversationNext ==
    \/ \E session_id \in Sessions : add_message(session_id)
    \/ \E session_id \in Sessions : clear_session(session_id)

SpecConversation == Init /\ [][ConversationNext]_vars

\* a step of execute_strategy whose tool answers with an empty result
EmptyResultNext ==
    \E ms \in Durations : execute_strategy_step("empty", ms)

\* a synthesis for which the prompt service returns the row TemplateUnknown
UnknownVariableNext ==
    \E llm \in {LLMEcho, LLMRaise}, ms \in Durations :
        generate_final_response("unknown", llm, ms)

\* turns with synthesis from any of the rows
SpecTemplate ==
    InitSynth /\ [][TurnNext \/ SynthesisNext \/ UnknownVariableNext]_vars

\* turns with synthesis whose tools may find nothing
SpecSummary ==
    InitSynth /\ [][TurnNext \/ SynthesisNext \/ EmptyResultNext]_vars

\* process_message calling the synthesis before execute_strategy has returned
process_message_synthesis_early(prompt, llm, ms) ==
    /\ pc \in {"planned", "executed"}
    /\ generate_final_response(prompt, llm, ms)

\* the synthesis call of process_message: the statement after the await of
\* execute_strategy
process_message_synthesis(prompt, llm, ms) ==
    /\ pc = "executed"
    /\ generate_final_response(prompt, llm, ms)

\* the statements of process_message after the plan and the run
OrchestratorNext ==
    \/ \E prompt \in PromptOutcomes, llm \in {LLMEcho, LLMRaise}, ms \in Durations :
           process_message_synthesis(prompt, llm, ms)
    \/ process_message_return

NextTurn == TurnNext \/ OrchestratorNext

\* turns as process_message sequences them: plan, execute_strategy, synthesis,
\* return
SpecTurn == InitSynth /\ [][NextTurn]_vars

(***************************************************************************)
(* Properties of execute_strategy, plan_strategy and generate_final_response *)
(***************************************************************************)
\* C1: for a Strategy that is not parse-failed, execute_strategy calls the
\* tools in the order of the steps array (the k-th call is for the k-th
\* step's tool); the first call's input is the user message, and for i > 1
\* the i-th call's input is json.dumps of step i-1's output without its
\* debug_info item; each step records the input of its call
C1_OrderAndThreading ==
    (~strategy.parse_error /\ pc \in {"run", "executed"}) =>
        /\ Len(calls) = (IF pc = "run" THEN idx - 1 ELSE Len(strategy.steps))
        /\ \A i \in 1..Len(calls) :
              /\ calls[i].tool = strategy.steps[i].tool
              /\ strategy.steps[i].input = PyStr(calls[i].input)
              /\ calls[i].input =
                     IF i = 1 THEN user_message
                     ELSE json_dumps(DictWithout(strategy.steps[i - 1].output,
                                                 "debug_info"))
        /\ \A i \in (Len(calls) + 1)..Len(strategy.steps) :
              IsNone(strategy.steps[i].input)

\* C1 happens: two steps for different tools were both sent to their servers
C1_Witness ==
    /\ pc = "executed" /\ ~strategy.parse_error
    /\ Len(strategy.steps) = 2 /\ Len(posts) = 2
    /\ strategy.steps[1].tool # strategy.steps[2].tool
    /\ DictHas(strategy.steps[1].output, "result")
    /\ strategy.steps[2].input # PyStr(user_message)

\* C2: when the tool call of a step fails (an exception inside the call, or
\* an error payload), execute_strategy does not raise, the loop stays inside
\* the steps array and returns only after a call for every step, every later
\* step has an output then, and the step after the failed one receives
\* json.dumps of the error payload without its debug_info item
C2_FailureNotFatal ==
    ~strategy.parse_error =>
        /\ raised.in # "execute_strategy"
        /\ pc = "run" => idx \in 1..Len(strategy.steps)
        /\ pc = "executed" => Len(calls) = Len(strategy.steps)
        /\ \A i \in 1..Len(calls) :
              DictHas(strategy.steps[i].output, "error") =>
                  /\ pc = "executed" =>
                        \A j \in (i + 1)..Len(strategy.steps) :
                            ~IsNone(strategy.steps[j].output)
                  /\ i < Len(calls) =>
                        /\ calls[i + 1].input =
                               json_dumps(DictWithout(strategy.steps[i].output,
                                                      "debug_info"))
                        /\ Contains(calls[i + 1].input, "{\"error\": ")

\* C2 happens: the first of two steps was sent to its server and failed, and
\* the second step was executed
C2_Witness ==
    /\ pc = "executed" /\ ~strategy.parse_error
    /\ Len(strategy.steps) = 2 /\ Len(calls) = 2
    /\ calls[1].reply \in {"rpc_error", "number", "refused", "status"}
    /\ DictHas(strategy.steps[1].output, "error")
    /\ ~IsNone(strategy.steps[2].output)

\* C3: a planner response that is not valid JSON, whose repair is not valid
\* JSON either, makes plan_strategy return (not raise) a Strategy with
\* parse_error, no steps, a parse_error_message and the original response as
\* raw_response; from_json_string on a text that is not valid JSON returns a
\* Strategy with parse_error, the single marker step, the message and the text
C3_ParseFailureContained ==
    /\ [][(/\ pc = "repair" /\ pc' # "repair"
           /\ ~json_loads(llm_response).ok /\ ~json_loads(llm_response').ok)
          => /\ pc' = "planned" /\ raised' = NoRaise
             /\ strategy'.parse_error
             /\ Len(strategy'.steps) = 0
             /\ IsStr(strategy'.parse_error_message)
             /\ strategy'.parse_error_message.v # ""
             /\ strategy'.raw_response = PyStr(llm_response)]_vars
    /\ [](\A text \in PlanTexts :
             ~json_loads(text).ok =>
                 LET s == from_json_string(text)
                 IN  /\ s.parse_error
                     /\ Len(s.steps) = 1 /\ s.steps[1].tool = PyStr("error")
                     /\ IsStr(s.parse_error_message)
                     /\ s.raw_response = PyStr(text))

\* C3 happens: plan_strategy returned after the repair call answered a text
\* that is not valid JSON
C3_Witness ==
    /\ pc = "planned" /\ strategy.parse_error
    /\ llm_calls = << "plan", "repair" >>
    /\ ~json_loads(llm_response).ok
    /\ IsStr(strategy.raw_response) /\ ~json_loads(strategy.raw_response.v).ok

C6_ResynthesisIdempotent ==
    [][(/\ pc = "answered" /\ pc' = "answered"
        /\ is_executed(strategy)
        /\ synth'.n = synth.n + 1
        /\ synth'.prompt = synth.prompt)
       => /\ synth'.path = synth.path
          /\ strategy'.steps = strategy.steps
          /\ strategy'.final_response_llm_prompt = strategy.final_response_llm_prompt
          /\ strategy'.final_response_llm_response =
                 strategy.final_response_llm_response
          /\ strategy'.final_response = strategy.final_response]_vars

\* C6 happens: a Strategy whose tool was called on its server was answered twice
C6_Witness ==
    /\ pc = "answered" /\ synth.n = 2 /\ synth.path = "tool_result"
    /\ is_executed(strategy) /\ ~strategy.parse_error
    /\ Len(posts) >= 1
    /\ IsStr(strategy.final_response)

\* C7: execute_strategy does not raise on any Strategy plan_strategy returned,
\* the parse-failed Strategy with no steps included
C7_RunNeverRaises ==
    llm_calls # <<>> => raised.in # "execute_strategy"

\* C8: on a Strategy with parse_error, execute_strategy calls no tool
C8_ParseFailedCallsNoTool ==
    strategy.parse_error => calls = <<>> /\ posts = <<>>

\* C8 happens: execute_strategy returned on a parse-failed Strategy while a
\* tool was discovered, enabled and its server healthy
C8_Witness ==
    /\ pc = "executed" /\ strategy.parse_error
    /\ Len(strategy.steps) = 1 /\ DictHas(strategy.steps[1].output, "error")
    /\ \E n \in enabled_tools :
          n \in DOMAIN available_tools /\ available_tools[n] \in healthy

\* C9: what a tool call returned as debug_info stays on its step
\* (step.debug_info) and no part of it is in the input of a later call, nor
\* in the text_input sent to a later tool's server
C9_DebugStaysOnStep ==
    ~strategy.parse_error =>
        /\ \A i \in 1..Len(calls) :
              /\ strategy.steps[i].debug_info =
                     DictGet(strategy.steps[i].output, "debug_info", PyDict(<<>>))
              /\ i > 1 =>
                    \A marker \in {"debug_info", "processing_time_ms", "tool_debug",
                                   "server_url", "sql: SELECT 1"} :
                        ~Contains(calls[i].input, marker)
        /\ \A k \in 1..Len(posts) : posts[k].text_input = calls[posts[k].i].input

\* C9 happens: a call returned a debug_info with the server's debug_response,
\* and the next step's tool was called on its server
C9_Witness ==
    \E k \in 1..Len(posts) :
        /\ posts[k].i > 1
        /\ DictHas(strategy.steps[posts[k].i - 1].output, "debug_info")
        /\ Contains(json_dumps(strategy.steps[posts[k].i - 1].debug_info),
                    "sql: SELECT 1")

\* C10 as stated: a call that fails because the tool is not discovered, not
\* enabled, its server not healthy, or by a transport exception, is recorded
\* as an error dict, and in none of the four cases a request reaches a server
C10_NoFailureReachesBackend ==
    \A i \in 1..Len(calls) :
        (\/ ~calls[i].known \/ ~calls[i].enabled \/ ~calls[i].up
         \/ calls[i].reply \in TransportFailures)
        => /\ DictHas(strategy.steps[i].output, "error")
           /\ \A k \in 1..Len(posts) : posts[k].i = i => ~posts[k].reached

\* C10: a call that fails because the tool is not discovered, not enabled,
\* its server not healthy, or by a transport exception, is recorded as an
\* error dict without a result, and execute_strategy does not raise; in the
\* first three cases no request is sent; a transport exception is the
\* failure of the request itself, which was sent
C10_FailuresAreErrorPayloads ==
    /\ ~strategy.parse_error => raised.in # "execute_strategy"
    /\ \A i \in 1..Len(calls) :
          /\ (\/ ~calls[i].known \/ ~calls[i].enabled \/ ~calls[i].up
              \/ calls[i].reply \in TransportFailures)
             => /\ DictHas(strategy.steps[i].output, "error")
                /\ ~DictHas(strategy.steps[i].output, "result")
          /\ (~calls[i].known \/ ~calls[i].enabled \/ ~calls[i].up)
             => \A k \in 1..Len(posts) : posts[k].i # i
          /\ calls[i].reply \in TransportFailures
             => \E k \in 1..Len(posts) : posts[k].i = i

\* C10 happens: one run met a tool that is not enabled or not discovered or
\* whose server is down, and a transport exception, and returned
C10_Witness ==
    /\ pc = "executed" /\ ~strategy.parse_error
    /\ \E i \in 1..Len(calls) : ~calls[i].known \/ ~calls[i].enabled \/ ~calls[i].up
    /\ \E i \in 1..Len(calls) : calls[i].reply \in TransportFailures

C12_BoundedRetryEnds ==
    /\ Len(SelectSeq(llm_calls, LAMBDA c : c = "repair")) <= 1
    /\ Len(SelectSeq(llm_calls, LAMBDA c : c \in {"plan", "repair"})) <= 2
    /\ (Len(llm_calls) >= 2 /\ llm_calls[2] = "repair") =>
          /\ raised.in # "plan_strategy"
          /\ pc # "repair"
          /\ \/ strategy.parse_error /\ strategy.steps = <<>>
             \/ /\ ~strategy.parse_error
                /\ Len(strategy.steps) = StepCount(llm_response)

\* C13: a planner response that is valid JSON but not an object whose steps
\* value is a list of objects is a parse failure: plan_strategy does not
\* raise on it and enters the repair flow, which ends with parse_error or
\* with a repaired response
C13_OtherShapesAreParseFailures ==
    (/\ Len(llm_calls) >= 1 /\ llm_calls[1] = "plan"
     /\ IsStr(strategy.raw_response)
     /\ json_loads(strategy.raw_response.v).ok
     /\ LET data == json_loads(strategy.raw_response.v).v
        IN  ~(/\ IsDict(data) /\ DictHas(data, "steps")
              /\ DictGet(data, "steps", PyNone).t = "list"
              /\ \A i \in 1..Len(DictGet(data, "steps", PyNone).v) :
                    IsDict(DictGet(data, "steps", PyNone).v[i])))
    => /\ raised.in # "plan_strategy"
       /\ pc \notin {"plan", "repair"} =>
             \/ strategy.parse_error
             \/ strategy.strategy_llm_response # strategy.raw_response

\* C14: a planner response with a step object that lacks step, tool or reason
\* is a parse failure: plan_strategy does not raise on it and enters the
\* repair flow, and the Strategy gets no step with the default index 0 or the
\* default tool ""
C14_MissingKeyIsParseFailure ==
    (/\ Len(llm_calls) >= 1 /\ llm_calls[1] = "plan"
     /\ IsStr(strategy.raw_response)
     /\ json_loads(strategy.raw_response.v).ok
     /\ LET data == json_loads(strategy.raw_response.v).v
        IN  /\ IsDict(data)
            /\ DictGet(data, "steps", PyNone).t = "list"
            /\ \E i \in 1..Len(DictGet(data, "steps", PyNone).v) :
                  LET step_data == DictGet(data, "steps", PyNone).v[i]
                  IN  /\ IsDict(step_data)
                      /\ \E key \in {"step", "tool", "reason"} :
                            ~DictHas(step_data, key))
    => /\ raised.in # "plan_strategy"
       /\ pc \notin {"plan", "repair"} =>
             \/ strategy.parse_error
             \/ strategy.strategy_llm_response # strategy.raw_response
       /\ \A i \in 1..Len(strategy.steps) :
             /\ strategy.steps[i].step # PyInt(0)
             /\ strategy.steps[i].tool # PyStr("")

\* C15: once plan_strategy has called the planning LLM, the Strategy carries
\* the planning prompt, the LLM response and the planning latency, whether
\* the parse succeeded, was repaired, failed for good, or the LLM call raised
C15_PlanningTraceRecorded ==
    (Len(llm_calls) >= 1 /\ llm_calls[1] = "plan") =>
        /\ IsStr(strategy.strategy_llm_prompt)
        /\ ~IsNone(strategy.strategy_llm_response)
        /\ ~IsNone(strategy.raw_response)
        /\ ~IsNone(strategy.strategy_llm_execution_time_ms)

\* C16: a failure of the prompt lookup or of the LLM call during
\* plan_strategy or generate_final_response does not escape the call as an
\* exception
C16_LLMFailuresAreData ==
    ~(/\ raised.in \in {"plan_strategy", "generate_final_response"}
      /\ raised.exc \in {"HTTPException", "Exception", "LLMError"})

\* C17: process_message never raises to its caller: whatever exception
\* escaped planning, execution or synthesis, it returns a dict whose message
\* is the fixed apology and not the text of the exception
C17_FailureReturnsApology ==
    pc = "returned" /\ raised # NoRaise =>
        /\ chat_result.kind = "return"
        /\ chat_result.dict.message = ApologyMessage
        /\ chat_result.dict.message # str_e(raised)

\* an exception that escaped the synthesis has been turned into a result
C17_Witness ==
    /\ pc = "returned"
    /\ raised.in = "generate_final_response"
    /\ chat_result.kind = "return"

\* C18: when a turn fails after a Strategy has been built or partly filled,
\* the failure result of process_message carries that Strategy together with
\* the generic failure message
C18_FailureResultKeepsStrategy ==
    pc = "returned" /\ raised # NoRaise /\ chat_result.kind = "return" =>
        /\ chat_result.dict.message = ApologyMessage
        /\ "strategy" \in DOMAIN chat_result.dict
        /\ chat_result.dict.strategy = strategy

\* the keys an operator may toggle: the two tools and a key no registry knows
ToggleKeys == ToolNames \cup {"t9"}

\* MCPToolManager.toggle_tool_enabled on the registry of this state
C19_ManagerToggle(key) ==
    /\ key \in DOMAIN registered_tools =>
           /\ toggle_tool_enabled_registry(registered_tools, key) =
                  [registered_tools EXCEPT ![key].enabled = ~registered_tools[key].enabled]
           /\ toggle_tool_enabled_registry(registered_tools, key) # registered_tools
           /\ toggle_tool_enabled_return(registered_tools, key) =
                  ~registered_tools[key].enabled
    /\ key \notin DOMAIN registered_tools =>
           /\ toggle_tool_enabled_registry(registered_tools, key) = registered_tools
           /\ toggle_tool_enabled_return(registered_tools, key) = FALSE
    /\ toggle_tool_enabled_registry(
           toggle_tool_enabled_registry(registered_tools, key), key) = registered_tools

\* MCPExecutor.toggle_tool on the registry of this state
C19_ExecutorToggle(key) ==
    /\ key \in DOMAIN available_tools =>
           /\ \A n \in ToggleKeys :
                  (n \in toggle_tool_set(available_tools, enabled_tools, key))
                      = IF n = key THEN n \notin enabled_tools ELSE n \in enabled_tools
           /\ toggle_tool_return(available_tools, enabled_tools, key) =
                  (key \in toggle_tool_set(available_tools, enabled_tools, key))
    /\ key \notin DOMAIN available_tools =>
           /\ toggle_tool_set(available_tools, enabled_tools, key) = enabled_tools
           /\ toggle_tool_return(available_tools, enabled_tools, key) = FALSE
    /\ toggle_tool_set(available_tools,
           toggle_tool_set(available_tools, enabled_tools, key), key) = enabled_tools

\* MCPManager.toggle_tool on an MCPManager holding the same two fields
C19_MCPManagerToggle(key) ==
    /\ key \in DOMAIN available_tools =>
           /\ \A n \in ToggleKeys :
                  (n \in MCPManager_toggle_tool_set(available_tools, enabled_tools, key))
                      = IF n = key THEN n \notin enabled_tools ELSE n \in enabled_tools
           /\ MCPManager_toggle_tool_return(available_tools, enabled_tools, key) =
                  (key \in MCPManager_toggle_tool_set(available_tools, enabled_tools, key))
    /\ key \notin DOMAIN available_tools =>
           /\ MCPManager_toggle_tool_set(available_tools, enabled_tools, key) = enabled_tools
           /\ MCPManager_toggle_tool_return(available_tools, enabled_tools, key) = FALSE
    /\ MCPManager_toggle_tool_set(available_tools,
           MCPManager_toggle_tool_set(available_tools, enabled_tools, key), key) = enabled_tools

\* C19: in every registry state, toggle(key) flips the enabled flag of that
\* one tool and nothing else and returns the new flag; for a key the registry
\* does not know it changes nothing and returns false; a second toggle of the
\* same key gives back the registry state before the first
C19_ToggleFlipsOneTool ==
    \A key \in ToggleKeys :
        /\ C19_ManagerToggle(key)
        /\ C19_ExecutorToggle(key)
        /\ C19_MCPManagerToggle(key)

\* both registries know t1 and t2, and toggles have switched t1 off in the
\* manager's registry and on in the executor's
C19_Witness ==
    /\ DOMAIN registered_tools = ToolNames
    /\ ~registered_tools["t1"].enabled
    /\ registered_tools["t2"].enabled
    /\ DOMAIN available_tools = ToolNames
    /\ enabled_tools = {"t1"}

\* C20: in every registry state after initialize, get_enabled_tools returns
\* exactly the tools that are enabled and available: a tool switched off by
\* toggle_tool_enabled is not in the view, and one switched on again is in it
\* iff it is available
C20_ViewIsEnabledAndAvailable ==
    manager_enabled_tools.t = "set" =>
        /\ get_enabled_tools(registered_tools, manager_enabled_tools).ok
        /\ get_enabled_tools(registered_tools, manager_enabled_tools).v =
               { key \in DOMAIN registered_tools :
                   registered_tools[key].enabled /\ registered_tools[key].available }

\* C21: a load of the catalog whose source is unreachable or answers with a
\* status other than 200 leaves the registry as it was before the call, same
\* keys and same flags, and no exception leaves the call
C21_FailedLoadKeepsCatalog ==
    \A reply \in CatalogReplies \ {"ok"}, catalog \in Catalogs :
        /\ registered_after_load(registered_tools, reply, catalog) = registered_tools
        /\ load_registered_tools_raises(reply).ok

\* a registry that holds a catalog with flags changed since its load: t1
\* switched off and found available
C21_Witness ==
    /\ DOMAIN registered_tools = ToolNames
    /\ ~registered_tools["t1"].enabled
    /\ registered_tools["t1"].available

\* C22: after a successful load the registry holds exactly the tools of the
\* loaded catalog: a tool registered before and absent from the new catalog
\* is no longer registered
C22_LoadReplacesToolSet ==
    \A catalog \in Catalogs :
        DOMAIN registered_after_load(registered_tools, "ok", catalog) =
            { catalog[i] : i \in 1..Len(catalog) }

\* C23: after a refresh of the availability, the available flag of every
\* tool is the outcome of the probe of its server: true when the server
\* answered, false when it did not
C23_AvailableIsProbeOutcome ==
    \A key \in DOMAIN registered_tools :
        registered_after_check(registered_tools, healthy)[key].available =
            (ProbedServer(registered_tools[key].mcp_server_name) \in healthy)

\* C24: a toggle that interleaves with a running turn does not invalidate the
\* turn's plan: every call of the turn is checked against the enabled tools
\* of the moment the plan was made, so a step whose tool was enabled then is
\* not rejected as not enabled
C24_PlanKeepsItsSnapshot ==
    \A i \in 1..Len(calls) :
        (calls[i].known /\ calls[i].tool.v \in plan_enabled_tools)
            => calls[i].enabled

\* C25: provided every tool call returns or times out, execute_strategy ends
\* with every step processed: a call that timed out is on its step as an
\* error dict, and the loop goes on to the next step or to the end
C25_RunEndsWithEveryStepProcessed ==
    /\ [](\A i \in 1..Len(calls) :
             calls[i].reply = "timeout" =>
                 /\ IsDict(strategy.steps[i].output)
                 /\ DictHas(strategy.steps[i].output, "error"))
    /\ (pc = "run") ~>
           (/\ pc = "executed"
            /\ \A i \in 1..Len(strategy.steps) : ~IsNone(strategy.steps[i].output))

\* a plan of two steps has been run to its end after the call of its first
\* step timed out
C25_Witness ==
    /\ pc = "executed"
    /\ Len(strategy.steps) = 2
    /\ Len(calls) = 2
    /\ calls[1].reply = "timeout"
    /\ ~IsNone(strategy.steps[2].output)

\* the steps of the turn that execute_strategy has processed: the marker step
\* once the parse-error branch has run (current_input is assigned first), and
\* otherwise one step for each call of execute_tool_directly
C26_Processed ==
    IF strategy.parse_error
    THEN IF current_input # "" THEN 1..Len(strategy.steps) ELSE {}
    ELSE 1..Len(calls)

C27_ParseFailedHasNoPlannedSteps ==
    strategy.parse_error =>
        \/ Len(strategy.steps) = 0
        \/ /\ Len(strategy.steps) = 1
           /\ strategy.steps[1].tool = PyStr("error")
           /\ strategy.steps[1].step = PyInt(1)

\* plan_strategy has given up after the repair and handed back its Strategy
C27_Witness ==
    /\ pc = "planned"
    /\ strategy.parse_error
    /\ Len(llm_calls) = 2
    /\ Len(strategy.steps) = 0

\* the generate_final_response calls of the turn: those that returned and the
\* one that raised
C28_Invoked ==
    synth.n + (IF raised.in = "generate_final_response" THEN 1 ELSE 0)

\* the LLM completion calls that generate_final_response made in the turn
C28_Completions ==
    Cardinality({ i \in 1..Len(llm_calls) : llm_calls[i] = "answer" })

\* C28: on either synthesis path, every generate_final_response call makes
\* exactly one LLM completion call and leaves the final prompt, the final
\* response and the latency of the call on the Strategy
C28_OneCompletionRecorded ==
    C28_Invoked > 0 =>
        /\ C28_Completions = C28_Invoked
        /\ strategy.final_response_llm_prompt.t = "str"
        /\ strategy.final_response_llm_response.t = "str"
        /\ strategy.final_response_llm_execution_time_ms.t = "int"

\* the stage process_message is in: 0 before the plan, 1 planning, 2 planned,
\* 3 running the steps, 4 run returned, 5 synthesis returned, 6 returned or
\* left by an exception
C29_Stage(position) ==
    CASE position = "idle" -> 0
      [] position \in {"plan", "repair"} -> 1
      [] position = "planned" -> 2
      [] position = "run" -> 3
      [] position = "executed" -> 4
      [] position = "answered" -> 5
      [] OTHER -> 6

\* the LLM calls of the turn made for the purpose p
C29_LLMCalls(p) ==
    Cardinality({ i \in 1..Len(llm_calls) : llm_calls[i] = p })

C30_EnabledKeys == { key \in DOMAIN registered_tools : registered_tools[key].enabled }

\* the description block _generate_tools_description_from_manager gives for
\* the registry as it is
C30_Block == generate_tools_description_from_manager(registered_tools)

\* C30: for every registry, the tool-description block exists; with no
\* enabled tool it is the sentence that no tools are available and has no
\* entry; with enabled tools it has one entry per enabled tool and no other
C30_BlockListsEnabledTools ==
    /\ C30_Block.ok
    /\ (C30_EnabledKeys = {}) =>
           (C30_Block.v = NoToolsText /\ C30_Block.composed = <<>>)
    /\ (C30_EnabledKeys # {}) =>
           /\ C30_Block.v # NoToolsText
           /\ Len(C30_Block.composed) = Cardinality(C30_EnabledKeys)
           /\ { C30_Block.composed[i].tool_key : i \in 1..Len(C30_Block.composed) }
                  = C30_EnabledKeys

C32_Emitted ==
    LET r == json_loads(llm_response)
    IN  IF /\ r.ok /\ IsDict(r.v)
           /\ DictGet(r.v, "steps", PyNone).t = "list"
           /\ \A i \in 1..Len(DictGet(r.v, "steps", PyNone).v) :
                  /\ IsDict(DictGet(r.v, "steps", PyNone).v[i])
                  /\ \A k \in {"step", "tool", "reason"} :
                         ~IsNone(DictGet(DictGet(r.v, "steps", PyNone).v[i], k, PyNone))
        THEN DictGet(r.v, "steps", PyNone).v
        ELSE <<>>

\* C32: when the planner response parses, plan_strategy returns with
\* parse_error false and one step per element of the steps array, in array
\* order, each with the element's step, tool and reason
C32_PlannerMaterializesSteps ==
    (llm_calls = << "plan" >> /\ Len(C32_Emitted) >= 1) =>
        /\ raised = NoRaise
        /\ ~strategy.parse_error
        /\ Len(strategy.steps) = Len(C32_Emitted)
        /\ \A i \in 1..Len(strategy.steps) :
               /\ strategy.steps[i].step = DictGet(C32_Emitted[i], "step", PyNone)
               /\ strategy.steps[i].tool = DictGet(C32_Emitted[i], "tool", PyNone)
               /\ strategy.steps[i].reason = DictGet(C32_Emitted[i], "reason", PyNone)

\* the system prompt of the last synthesis of the turn
C33_Prompt == strategy.final_response_llm_prompt.v

C34_UnknownPlaceholderOmitted ==
    /\ (raised.in = "generate_final_response") =>
           raised.exc \in {"LLMError", "HTTPException", "Exception"}
    /\ (synth.n > 0 /\ synth.path = "tool_result" /\ synth.prompt = "unknown") =>
           /\ ~Contains(C33_Prompt, "customer_name")
           /\ ~Contains(C33_Prompt, "{")
           /\ Contains(C33_Prompt, "Customer: \n")
           /\ C28_Completions = C28_Invoked
           /\ strategy.final_response = PyStr(call_claude(C33_Prompt,
                                               "Answer on the basis of the above."))

\* C34 happens: the row with the unknown variable was used for an executed
\* Strategy and the answer was stored
C34_Witness ==
    /\ synth.n > 0 /\ synth.path = "tool_result" /\ synth.prompt = "unknown"
    /\ pc = "answered"
    /\ IsStr(strategy.final_response)
    /\ llm_calls = << "answer" >>

\* the fields of a step that execute_strategy may write
C35_ExecutionFields == {"input", "output", "execution_time_ms", "debug_info"}

\* C35: a step of execute_strategy keeps the Strategy in place: the same
\* number of steps in the same order, every field of the Strategy other than
\* steps unchanged, and in each step nothing changed except input, output,
\* execution_time_ms and debug_info; at most the step being processed changes
C35_RunWritesOnlyExecutionFields ==
    [][(pc \in {"planned", "run"} /\ pc' # "idle") =>
          /\ Len(strategy'.steps) = Len(strategy.steps)
          /\ \A f \in DOMAIN strategy \ {"steps"} : strategy'[f] = strategy[f]
          /\ \A i \in 1..Len(strategy.steps) :
                 /\ \A f \in DOMAIN strategy.steps[i] \ C35_ExecutionFields :
                        strategy'.steps[i][f] = strategy.steps[i][f]
                 /\ (pc = "run" /\ i # idx) => strategy'.steps[i] = strategy.steps[i]]_vars

\* C35 happens: execute_strategy has returned a two-step Strategy with both
\* steps filled and the planned fields as they were parsed
C35_Witness ==
    /\ pc = "executed"
    /\ Len(strategy.steps) = 2
    /\ \A i \in 1..2 :
           /\ ~IsNone(strategy.steps[i].output)
           /\ ~IsNone(strategy.steps[i].input)
           /\ strategy.steps[i].tool =
                  from_json_string(strategy.raw_response.v).steps[i].tool
           /\ strategy.steps[i].reason =
                  from_json_string(strategy.raw_response.v).steps[i].reason
    /\ strategy.steps[1].output # strategy.steps[2].output

\* C36: when _fix_parse_error_with_llm cannot produce a text (no repair
\* prompt, or the repair call raises) and returns the original response,
\* plan_strategy returns without raising, with parse_error set, no steps,
\* the message of the second parse failure and the original response kept
C36_FailedRepairEndsInPermanentFailure ==
    [][(pc = "repair" /\ pc' # "idle" /\ llm_response' = llm_response) =>
          /\ pc' = "planned"
          /\ raised' = NoRaise
          /\ strategy'.parse_error
          /\ strategy'.steps = <<>>
          /\ IsStr(strategy'.parse_error_message)
          /\ strategy'.raw_response = PyStr(llm_response)
          /\ ~json_loads(llm_response).ok]_vars

\* C36 happens: the repair prompt was missing, no repair call was made and
\* plan_strategy returned the permanently failed Strategy
C36_Witness ==
    /\ pc = "planned"
    /\ llm_calls = << "plan" >>
    /\ strategy.parse_error
    /\ strategy.steps = <<>>
    /\ strategy.raw_response = PyStr(llm_response)
    /\ ~json_loads(llm_response).ok

\* C37: every tool the planner takes as enabled (enabled flag set in
\* MCPToolManager.registered_tools) is a member of MCPExecutor.enabled_tools,
\* so execute_tool_directly does not refuse it as not enabled
C37_PlannerAndExecutorAgree ==
    \A key \in DOMAIN registered_tools :
        registered_tools[key].enabled =>
            /\ key \in enabled_tools
            /\ \A kind \in Replies, ms \in Durations :
                   execute_tool_directly(PyStr(key), "", kind, ms).result
                       # PyDict(<< Item("error",
                              PyStr("Tool '" \o key \o "' not enabled")) >>)

\* C38: in every state of MCPExecutor, each member of enabled_tools is a key
\* of available_tools
C38_EnabledAreAvailable ==
    enabled_tools \subseteq DOMAIN available_tools

(***************************************************************************)
(* C39: the debug traces and the execution results a process_message call  *)
(* returns hold only the LLM and tool events of that call, however the     *)
(* calls on the one AIAgent interleave at their awaits.                    *)
(***************************************************************************)
C39_Returned(t) ==
    /\ agent_turns[t].pc = "returned"
    /\ agent_turns[t].returned.kind = "success"

C39_TurnsIsolated ==
    \A t \in AgentTurns :
        C39_Returned(t) =>
            /\ \A k \in DOMAIN agent_turns[t].returned.results :
                   agent_turns[t].returned.results[k].turn = t
            /\ \A k \in DOMAIN collector_traces[agent_turns[t].returned.debug_traces] :
                   collector_traces[agent_turns[t].returned.debug_traces][k].turn = t

(***************************************************************************)
(* C40: every session holds at most 20 entries, the most recently added    *)
(* ones in insertion order; get_conversation_context(session,              *)
(* max_messages) is built from at most the last max_messages entries and   *)
(* is the empty string for an unknown or cleared session.                  *)
(***************************************************************************)
C40_Kept(s) == IF added[s] < HistoryLimit THEN added[s] ELSE HistoryLimit

\* the most recently added entries of session s, oldest first
C40_MostRecent(s, n) == [k \in 1..n |-> ConversationEntry(added[s] - n + k)]

C40_MaxMessagesValues == {0, 1, 5, 25}

C40_HistoryBounded ==
    \A s \in Sessions :
        IF s \in DOMAIN conversations
        THEN /\ Len(conversations[s]) <= HistoryLimit
             /\ conversations[s] = C40_MostRecent(s, C40_Kept(s))
        ELSE \A m \in C40_MaxMessagesValues :
                 get_conversation_context(conversations, s, m) = ""

====
